---- MODULE Spec2Model ----
(***************************************************************************)
(* Config_Manager: the resolution pipeline of ConfigManager (core.py),     *)
(* EnvironmentManager (env.py) and the nested-map utilities (utils.py).    *)
(*                                                                         *)
(* Python objects live on a heap of dict and list objects, so that shallow *)
(* copies, deep copies and in-place mutation are told apart.  Strings are  *)
(* sequences of one-character strings, so that split, lower, replace,      *)
(* startswith and the int/float parsers are computed rather than assumed.  *)
(***************************************************************************)
EXTENDS Integers, Sequences, FiniteSets, TLC

VARIABLES
    heap,                \* object id -> dict or list object
    config_data,         \* ConfigManager.config_data: reference to the raw tree
    loaded_files,        \* ConfigManager.loaded_files
    resolved_cache,      \* ConfigManager._resolved_cache: None or a reference
    current_env,         \* EnvironmentManager._current_env: None or an Environment
    env_overrides_cache, \* EnvironmentManager._env_overrides_cache: None or a reference
    environ,             \* os.environ: variable name -> string
    files,               \* the file system: path -> file
    last,                \* the last call made: its name, arguments and outcome
    steps,               \* number of calls made so far
    m_in,                \* arguments of a function applied on its own
    m_out,               \* the result of that function
    rules                \* ConfigValidator.rules: key path -> rules, in insertion order

vars == <<heap, config_data, loaded_files, resolved_cache, current_env,
          env_overrides_cache, environ, files, last, steps, m_in, m_out,
          rules>>

-----------------------------------------------------------------------------
(* Bounds of the exploration *)

MaxSteps == 3       \* calls made on one ConfigManager
MaxStrLen == 3      \* length of the strings given to _convert_env_value and to the port rule
MaxEnvSteps == 4    \* calls made on an EnvironmentManager used on its own
MaxPad == 1         \* whitespace characters on each side of an environment name
MaxRuleSteps == 3   \* add_rule and remove_rule calls made on one ConfigValidator
MaxLoadSteps == 4   \* calls and file changes made around load_file and reload
MaxAccessSteps == 3 \* calls made on one ConfigManager read and written by path
MaxSessionSteps == 2 \* changes made to one ConfigManager between the calls that read it
MaxSnapshotSteps == 3 \* changes made to a ConfigManager and to a tree it returned
MaxResetSteps == 4    \* changes made to a ConfigManager around clear and reload

-----------------------------------------------------------------------------
(* Strings *)

UpperChars == <<"A","B","C","D","E","F","G","H","I","J","K","L","M",
                "N","O","P","Q","R","S","T","U","V","W","X","Y","Z">>
LowerChars == <<"a","b","c","d","e","f","g","h","i","j","k","l","m",
                "n","o","p","q","r","s","t","u","v","w","x","y","z">>
DigitChars == <<"0","1","2","3","4","5","6","7","8","9">>

Range(s) == {s[i] : i \in DOMAIN s}

\* str.lower() on one character
LowerChar(c) ==
    IF c \in Range(UpperChars)
    THEN LowerChars[CHOOSE i \in DOMAIN UpperChars : UpperChars[i] = c]
    ELSE c

\* str.lower()
Lower(s) == [i \in 1..Len(s) |-> LowerChar(s[i])]

\* str.upper()
Upper(s) ==
    [i \in 1..Len(s) |->
        IF s[i] \in Range(LowerChars)
        THEN UpperChars[CHOOSE j \in DOMAIN LowerChars : LowerChars[j] = s[i]]
        ELSE s[i]]

\* str.replace(a, b) for one-character a and b
Replace(s, a, b) == [i \in 1..Len(s) |-> IF s[i] = a THEN b ELSE s[i]]

\* str.startswith(p)
StartsWith(s, p) == Len(p) <= Len(s) /\ SubSeq(s, 1, Len(p)) = p

\* str.split(sep) for a one-character separator: "a..b" gives a, "", b
RECURSIVE Split(_, _)
Split(s, sep) ==
    IF \A i \in 1..Len(s) : s[i] # sep
    THEN <<s>>
    ELSE LET i == CHOOSE j \in 1..Len(s) :
                      s[j] = sep /\ \A k \in 1..(j - 1) : s[k] # sep
         IN  <<SubSeq(s, 1, i - 1)>> \o Split(SubSeq(s, i + 1, Len(s)), sep)

IsSpace(c) == c \in {" ", "\t", "\n"}

\* str.strip()
RECURSIVE Strip(_)
Strip(s) ==
    IF s = <<>> THEN s
    ELSE IF IsSpace(Head(s)) THEN Strip(Tail(s))
    ELSE IF IsSpace(s[Len(s)]) THEN Strip(SubSeq(s, 1, Len(s) - 1))
    ELSE s

\* the separator of dot-paths
Sep == "."

-----------------------------------------------------------------------------
(* Values and the heap *)

None == [t |-> "null"]
BoolV(b) == [t |-> "bool", b |-> b]
IntV(n) == [t |-> "int", n |-> n]
StrV(s) == [t |-> "str", s |-> s]
Ref(id) == [t |-> "ref", id |-> id]

EmptyMap == << >>

\* m with m[k] = v
SetKey(m, k, v) == [x \in (DOMAIN m) \cup {k} |-> IF x = k THEN v ELSE m[x]]

\* m without k
DelKey(m, k) == [x \in (DOMAIN m) \ {k} |-> m[x]]

DictObj(m) == [kind |-> "dict", m |-> m]
ListObj(e) == [kind |-> "list", e |-> e]

\* isinstance(v, dict)
IsDict(h, v) == v.t = "ref" /\ h[v.id].kind = "dict"

\* the id of a newly created object
NewId(h) ==
    CHOOSE n \in 1..(Cardinality(DOMAIN h) + 1) :
        n \notin DOMAIN h /\ \A k \in 1..(n - 1) : k \in DOMAIN h

\* a new object on the heap
AllocAt(h, id, obj) == [h |-> h @@ (id :> obj), v |-> Ref(id)]
Alloc(h, obj) == AllocAt(h, NewId(h), obj)

-----------------------------------------------------------------------------
(* copy.deepcopy and dict(...) *)

RECURSIVE deepcopy(_, _), CopyItems(_, _, _, _), CopyElems(_, _, _, _)

\* copy.deepcopy(v): scalars are returned as they are, dicts and lists are
\* rebuilt from copies of their items
deepcopy(h, v) ==
    IF v.t # "ref" THEN [h |-> h, v |-> v]
    ELSE IF h[v.id].kind = "dict"
    THEN LET c == CopyItems(h, h[v.id].m, DOMAIN h[v.id].m, EmptyMap)
         IN  Alloc(c.h, DictObj(c.m))
    ELSE LET c == CopyElems(h, h[v.id].e, 1, <<>>)
         IN  Alloc(c.h, ListObj(c.e))

CopyItems(h, m, ks, acc) ==
    IF ks = {} THEN [h |-> h, m |-> acc]
    ELSE LET k == CHOOSE x \in ks : TRUE
             c == deepcopy(h, m[k])
         IN  CopyItems(c.h, m, ks \ {k}, SetKey(acc, k, c.v))

CopyElems(h, e, i, acc) ==
    IF i > Len(e) THEN [h |-> h, e |-> acc]
    ELSE LET c == deepcopy(h, e[i])
         IN  CopyElems(c.h, e, i + 1, Append(acc, c.v))

\* dict(d): a new dict holding the same values (nested objects are shared)
\* faulty variant of dict(d): the dict itself is used
NotCopied(h, d) == [h |-> h, v |-> d]

ShallowCopy(h, d) == Alloc(h, DictObj(h[d.id].m))

-----------------------------------------------------------------------------
(* utils.py *)

RECURSIVE deep_merge(_, _, _), MergeItems(_, _, _, _)

\* deep_merge(base, overlay): result = deepcopy(base), then every item of
\* overlay is merged (dict over dict) or copied over it
deep_merge(h, base, overlay) ==
    LET c == deepcopy(h, base)
    IN  [h |-> MergeItems(c.h, c.v.id, overlay.id, DOMAIN h[overlay.id].m),
         v |-> c.v]

\* faulty variant of the test below: nested dicts are replaced like any other
\* value
MergeNeverRecurses(h, result, key, value) == FALSE

\* the test of lines 36-38: the key is in result and both values are dicts
MergeRecurses(h, result, key, value) ==
    /\ key \in DOMAIN h[result].m
    /\ IsDict(h, h[result].m[key])
    /\ IsDict(h, value)

\* faulty variant of line 43: the overlay's own object is stored
ReplacingValueShared(h, value) == [h |-> h, v |-> value]

\* line 43: the value stored when the overlay's value replaces the base's
ReplacingValue(h, value) == deepcopy(h, value)

\* the new result[key] for one item of overlay
MergeItem(h, result, key, value) ==
    IF MergeRecurses(h, result, key, value)
    THEN deep_merge(h, h[result].m[key], value)
    ELSE ReplacingValue(h, value)

\* result[key] = r.v on the heap r.h
StoreItem(r, result, key) == [r.h EXCEPT ![result].m = SetKey(@, key, r.v)]

\* the loop of deep_merge over the keys ks of overlay still to visit
MergeItems(h, result, overlay, ks) ==
    IF ks = {} THEN h
    ELSE LET key == CHOOSE x \in ks : TRUE
         IN  MergeItems(StoreItem(MergeItem(h, result, key, h[overlay].m[key]),
                                  result, key),
                        result, overlay, ks \ {key})

\* the loop of get_nested_value over the keys of the path
RECURSIVE GetWalk(_, _, _, _)
GetWalk(h, current_data, keys, default) ==
    IF keys = <<>> THEN current_data
    ELSE IF ~IsDict(h, current_data) THEN default
    ELSE IF Head(keys) \notin DOMAIN h[current_data.id].m THEN default
    ELSE GetWalk(h, h[current_data.id].m[Head(keys)], Tail(keys), default)

get_nested_value(h, data, key_path, default) ==
    GetWalk(h, data, Split(key_path, Sep), default)

\* faulty variant of the loops of set_nested_value: a key on the way that
\* holds a non-dict ends the walk, and nothing is set
RECURSIVE SetWalkGivingUp(_, _, _, _)
SetWalkGivingUp(h, current_data, keys, value) ==
    IF Len(keys) = 1
    THEN [h EXCEPT ![current_data].m = SetKey(@, keys[1], value)]
    ELSE LET key == Head(keys)
             m == h[current_data].m
         IN  IF key \notin DOMAIN m
             THEN LET a == Alloc(h, DictObj(EmptyMap))
                  IN  SetWalkGivingUp([a.h EXCEPT ![current_data].m = SetKey(@, key, a.v)],
                                      a.v.id, Tail(keys), value)
             ELSE IF ~IsDict(h, m[key]) THEN h
             ELSE SetWalkGivingUp(h, m[key].id, Tail(keys), value)

\* the loops of set_nested_value: intermediate keys that are missing or hold a
\* non-dict get a new empty dict; the last key gets the value
RECURSIVE SetWalk(_, _, _, _)
SetWalk(h, current_data, keys, value) ==
    IF Len(keys) = 1
    THEN [h EXCEPT ![current_data].m = SetKey(@, keys[1], value)]
    ELSE LET key == Head(keys)
             m == h[current_data].m
         IN  IF key \notin DOMAIN m \/ ~IsDict(h, m[key])
             THEN LET a == Alloc(h, DictObj(EmptyMap))
                  IN  SetWalk([a.h EXCEPT ![current_data].m = SetKey(@, key, a.v)],
                              a.v.id, Tail(keys), value)
             ELSE SetWalk(h, m[key].id, Tail(keys), value)

\* faulty variant of set_nested_value: the value is stored under the whole
\* path as one key
set_nested_value_flat(h, data, key_path, value) ==
    [h EXCEPT ![data.id].m = SetKey(@, key_path, value)]

\* set_nested_value(data, key_path, value): the heap after the in-place update
set_nested_value(h, data, key_path, value) ==
    SetWalk(h, data.id, Split(key_path, Sep), value)

RECURSIVE HasWalk(_, _, _)
HasWalk(h, current_data, keys) ==
    IF keys = <<>> THEN TRUE
    ELSE IF ~IsDict(h, current_data) \/ Head(keys) \notin DOMAIN h[current_data.id].m
    THEN FALSE
    ELSE HasWalk(h, h[current_data.id].m[Head(keys)], Tail(keys))

has_nested_key(h, data, key_path) == HasWalk(h, data, Split(key_path, Sep))

\* a dict as its items in insertion order: result[key] = value
PutItem(items, key, value) ==
    IF \E i \in DOMAIN items : items[i][1] = key
    THEN [i \in DOMAIN items |->
             IF items[i][1] = key THEN <<key, value>> ELSE items[i]]
    ELSE Append(items, <<key, value>>)

\* result.update(other)
RECURSIVE UpdateItems(_, _)
UpdateItems(items, other) ==
    IF other = <<>> THEN items
    ELSE UpdateItems(PutItem(items, other[1][1], other[1][2]), Tail(other))

\* the keys of data as data.items() yields them, `order` ranking all keys
KeysInOrder(h, data, order) ==
    SelectSeq(order, LAMBDA k : k \in DOMAIN h[data.id].m)

RECURSIVE flatten_dict(_, _, _, _), FlattenItems(_, _, _, _, _, _)

\* flatten_dict(data, separator, prefix): the items of the flat dict
flatten_dict(h, data, prefix, order) ==
    FlattenItems(h, data, KeysInOrder(h, data, order), prefix, order, <<>>)

\* the loop of flatten_dict over the keys ks still to visit; `if prefix` is
\* false for the empty string
FlattenItems(h, data, ks, prefix, order, result) ==
    IF ks = <<>> THEN result
    ELSE LET key == Head(ks)
             value == h[data.id].m[key]
             new_key == IF prefix # <<>> THEN prefix \o <<Sep>> \o key ELSE key
         IN  FlattenItems(h, data, Tail(ks), prefix, order,
                 IF IsDict(h, value)
                 THEN UpdateItems(result, flatten_dict(h, value, new_key, order))
                 ELSE PutItem(result, new_key, value))

\* the loop of unflatten_dict over the items of flat_data
RECURSIVE UnflattenLoop(_, _, _)
UnflattenLoop(h, result, items) ==
    IF items = <<>> THEN h
    ELSE UnflattenLoop(set_nested_value(h, result, items[1][1], items[1][2]),
                       result, Tail(items))

\* unflatten_dict(flat_data): a new dict filled by set_nested_value
unflatten_dict(h, flat_data) ==
    LET a == Alloc(h, DictObj(EmptyMap))
    IN  [h |-> UnflattenLoop(a.h, a.v, flat_data), v |-> a.v]

-----------------------------------------------------------------------------
(* The tree an object denotes, and objects built from a literal tree *)

DictT(m) == [t |-> "dict", m |-> m]
ListT(e) == [t |-> "list", e |-> e]

\* the value of v as a tree (what == compares and what a codec would encode)
RECURSIVE Val(_, _)
Val(h, v) ==
    IF v.t # "ref" THEN v
    ELSE IF h[v.id].kind = "dict"
    THEN DictT([k \in DOMAIN h[v.id].m |-> Val(h, h[v.id].m[k])])
    ELSE ListT([i \in 1..Len(h[v.id].e) |-> Val(h, h[v.id].e[i])])

\* a literal tree as new objects
RECURSIVE Build(_, _), BuildItems(_, _, _, _), BuildElems(_, _, _, _)
Build(h, tree) ==
    IF tree.t = "dict"
    THEN LET c == BuildItems(h, tree.m, DOMAIN tree.m, EmptyMap)
         IN  Alloc(c.h, DictObj(c.m))
    ELSE IF tree.t = "list"
    THEN LET c == BuildElems(h, tree.e, 1, <<>>)
         IN  Alloc(c.h, ListObj(c.e))
    ELSE [h |-> h, v |-> tree]

BuildItems(h, m, ks, acc) ==
    IF ks = {} THEN [h |-> h, m |-> acc]
    ELSE LET k == CHOOSE x \in ks : TRUE
             c == Build(h, m[k])
         IN  BuildItems(c.h, m, ks \ {k}, SetKey(acc, k, c.v))

BuildElems(h, e, i, acc) ==
    IF i > Len(e) THEN [h |-> h, e |-> acc]
    ELSE LET c == Build(h, e[i])
         IN  BuildElems(c.h, e, i + 1, Append(acc, c.v))

\* the objects reachable from the values vs
RECURSIVE ReachIds(_, _)
ReachIds(h, S) ==
    LET refs(o) == IF o.kind = "dict" THEN {o.m[k] : k \in DOMAIN o.m}
                   ELSE Range(o.e)
        N == S \cup {v.id : v \in {w \in UNION {refs(h[i]) : i \in S} : w.t = "ref"}}
    IN  IF N = S THEN S ELSE ReachIds(h, N)

Reach(h, vs) == ReachIds(h, {v.id : v \in {w \in vs : w.t = "ref"}})

-----------------------------------------------------------------------------
(* Heap normalisation: objects no variable can reach are dropped and the    *)
(* remaining ones are numbered in the order a walk from the variables meets *)
(* them, so that a state is the object graph and not its addresses.         *)

RECURSIVE KeySeq(_)
KeySeq(ks) ==
    IF ks = {} THEN <<>>
    ELSE LET k == CHOOSE x \in ks : TRUE IN <<k>> \o KeySeq(ks \ {k})

Children(o) ==
    IF o.kind = "dict"
    THEN LET ks == KeySeq(DOMAIN o.m) IN [i \in 1..Len(ks) |-> o.m[ks[i]]]
    ELSE o.e

RECURSIVE Visit(_, _, _)
Visit(h, todo, seen) ==
    IF todo = <<>> THEN seen
    ELSE IF Head(todo).t # "ref" \/ Head(todo).id \in Range(seen)
    THEN Visit(h, Tail(todo), seen)
    ELSE Visit(h, Children(h[Head(todo).id]) \o Tail(todo),
               Append(seen, Head(todo).id))

RenV(order, v) ==
    IF v.t = "ref" THEN Ref(CHOOSE i \in DOMAIN order : order[i] = v.id) ELSE v

RenObj(order, o) ==
    IF o.kind = "dict"
    THEN DictObj([k \in DOMAIN o.m |-> RenV(order, o.m[k])])
    ELSE ListObj([i \in 1..Len(o.e) |-> RenV(order, o.e[i])])

Compact(h, roots) ==
    LET order == Visit(h, roots, <<>>)
    IN  [h |-> [i \in 1..Len(order) |-> RenObj(order, h[order[i]])],
         order |-> order]

-----------------------------------------------------------------------------
(* env.py: Environment *)

Development == <<"d","e","v","e","l","o","p","m","e","n","t">>
Staging == <<"s","t","a","g","i","n","g">>
Production == <<"p","r","o","d","u","c","t","i","o","n">>
Testing == <<"t","e","s","t","i","n","g">>

Environments == {Development, Staging, Production, Testing}

EnvV(value) == [t |-> "env", value |-> value]

\* the alias table of Environment.from_string
env_map ==
    (<<"d","e","v">> :> Development) @@
    (<<"d","e","v","e","l","o","p">> :> Development) @@
    (<<"d","e","v","e","l","o","p","m","e","n","t">> :> Development) @@
    (<<"l","o","c","a","l">> :> Development) @@
    (<<"s","t","a","g","e">> :> Staging) @@
    (<<"s","t","a","g","i","n","g">> :> Staging) @@
    (<<"p","r","e","p","r","o","d">> :> Staging) @@
    (<<"p","r","e","-","p","r","o","d","u","c","t","i","o","n">> :> Staging) @@
    (<<"p","r","o","d">> :> Production) @@
    (<<"p","r","o","d","u","c","t","i","o","n">> :> Production) @@
    (<<"l","i","v","e">> :> Production) @@
    (<<"t","e","s","t">> :> Testing) @@
    (<<"t","e","s","t","i","n","g">> :> Testing) @@
    (<<"c","i">> :> Testing)

\* faulty variant of from_string: the string is lower-cased but not trimmed
from_string_untrimmed(env_str) ==
    LET normalized_env == Lower(env_str)
    IN  IF normalized_env \in DOMAIN env_map
        THEN [exc |-> "none", v |-> EnvV(env_map[normalized_env])]
        ELSE IF normalized_env \in Environments
        THEN [exc |-> "none", v |-> EnvV(normalized_env)]
        ELSE [exc |-> "ValueError", v |-> None]

\* Environment.from_string(env_str): the environment, or ValueError
from_string(env_str) ==
    LET normalized_env == Strip(Lower(env_str))
    IN  IF normalized_env \in DOMAIN env_map
        THEN [exc |-> "none", v |-> EnvV(env_map[normalized_env])]
        ELSE IF normalized_env \in Environments
        THEN [exc |-> "none", v |-> EnvV(normalized_env)]
        ELSE [exc |-> "ValueError", v |-> None]

-----------------------------------------------------------------------------
(* The built-in int() and float() on strings *)

IsDigit(c) == c \in Range(DigitChars)
DigitVal(c) == (CHOOSE i \in DOMAIN DigitChars : DigitChars[i] = c) - 1

\* digits, with single underscores allowed between two digits
IsDigitPart(s) ==
    /\ s # <<>>
    /\ IsDigit(s[1]) /\ IsDigit(s[Len(s)])
    /\ \A i \in 1..Len(s) : IsDigit(s[i]) \/ s[i] = "_"
    /\ \A i \in 1..(Len(s) - 1) : ~(s[i] = "_" /\ s[i + 1] = "_")

RECURSIVE DigitsValue(_, _)
DigitsValue(s, acc) ==
    IF s = <<>> THEN acc
    ELSE IF Head(s) = "_" THEN DigitsValue(Tail(s), acc)
    ELSE DigitsValue(Tail(s), 10 * acc + DigitVal(Head(s)))

NumDigits(s) == Cardinality({i \in 1..Len(s) : IsDigit(s[i])})

HasSign(s) == s # <<>> /\ s[1] \in {"+", "-"}
Unsigned(s) == IF HasSign(s) THEN Tail(s) ELSE s
SignOf(s) == IF s # <<>> /\ s[1] = "-" THEN -1 ELSE 1

Raised(e) == [exc |-> e, v |-> None]
Returned(v) == [exc |-> "none", v |-> v]

IntStripped(s) ==
    IF IsDigitPart(Unsigned(s))
    THEN Returned(IntV(SignOf(s) * DigitsValue(Unsigned(s), 0)))
    ELSE Raised("ValueError")

\* int(value): optional surrounding whitespace, optional sign, decimal digits
int(value) == IntStripped(Strip(value))

\* a float is mant * 10^exp with mant not a multiple of 10, or inf, -inf, nan
RECURSIVE NormFloat(_, _)
NormFloat(mant, exp) ==
    IF mant = 0 THEN [t |-> "float", kind |-> "finite", mant |-> 0, exp |-> 0]
    ELSE IF mant % 10 = 0 THEN NormFloat(mant \div 10, exp + 1)
    ELSE [t |-> "float", kind |-> "finite", mant |-> mant, exp |-> exp]

SpecialFloat(kind) == [t |-> "float", kind |-> kind, mant |-> 0, exp |-> 0]

RECURSIVE NumLen(_)
NumLen(n) == IF n < 10 THEN 1 ELSE 1 + NumLen(n \div 10)

\* the largest and smallest decimal exponents of a double
MaxDecimalDigits == 309
MinDecimalDigits == -323

\* rounding to a double: out of range magnitudes become inf or zero
ToDouble(sign, mant, exp) ==
    IF mant # 0 /\ NumLen(mant) + exp > MaxDecimalDigits
    THEN SpecialFloat(IF sign < 0 THEN "-inf" ELSE "inf")
    ELSE IF mant # 0 /\ NumLen(mant) + exp < MinDecimalDigits
    THEN NormFloat(0, 0)
    ELSE NormFloat(sign * mant, exp)

FirstIndex(s, cs) ==
    IF \E i \in 1..Len(s) : s[i] \in cs
    THEN CHOOSE i \in 1..Len(s) : s[i] \in cs /\ \A j \in 1..(i - 1) : s[j] \notin cs
    ELSE 0

\* float(): the digits ip before and fp after the dot, and the exponent ep
FloatBuild(sign, ip, fp, dotted, ep) ==
    IF /\ IF dotted
          THEN \/ IsDigitPart(ip) /\ (fp = <<>> \/ IsDigitPart(fp))
               \/ ip = <<>> /\ IsDigitPart(fp)
          ELSE IsDigitPart(ip)
       /\ IsDigitPart(Unsigned(ep))
    THEN Returned(ToDouble(sign, DigitsValue(ip \o fp, 0),
                           SignOf(ep) * DigitsValue(Unsigned(ep), 0) - NumDigits(fp)))
    ELSE Raised("ValueError")

\* float(): the mantissa mp is split at its first dot, at index d if any
FloatSplit(sign, mp, d, ep) ==
    FloatBuild(sign,
               IF d = 0 THEN mp ELSE SubSeq(mp, 1, d - 1),
               IF d = 0 THEN <<>> ELSE SubSeq(mp, d + 1, Len(mp)),
               d # 0, ep)

\* float(): the literal u is split at its exponent marker, at index x if any
\* (no marker is an exponent of 0)
FloatDecimal(sign, u, x) ==
    FloatSplit(sign,
               IF x = 0 THEN u ELSE SubSeq(u, 1, x - 1),
               FirstIndex(IF x = 0 THEN u ELSE SubSeq(u, 1, x - 1), {"."}),
               IF x = 0 THEN <<"0">> ELSE SubSeq(u, x + 1, Len(u)))

\* float(): the unsigned literal is inf, infinity, nan, or a decimal number
FloatUnsigned(sign, u) ==
    IF Lower(u) \in {<<"i","n","f">>, <<"i","n","f","i","n","i","t","y">>}
    THEN Returned(SpecialFloat(IF sign < 0 THEN "-inf" ELSE "inf"))
    ELSE IF Lower(u) = <<"n","a","n">>
    THEN Returned(SpecialFloat("nan"))
    ELSE FloatDecimal(sign, u, FirstIndex(u, {"e", "E"}))

FloatStripped(s) == FloatUnsigned(SignOf(s), Unsigned(s))

\* float(value): optional whitespace and sign, then inf, infinity, nan, or
\* digits with an optional fraction and an optional exponent
float(value) == FloatStripped(Strip(value))

-----------------------------------------------------------------------------
(* env.py: EnvironmentManager *)

\* ConfigManager() is built with the default env_var_name, 'APP_ENV'
env_var_name == <<"A","P","P","_","E","N","V">>

\* current_environment: the fallback when from_string raises
EnvOrDevelopment(r) == IF r.exc = "none" THEN r.v ELSE EnvV(Development)

\* faulty variant of current_environment: the process variable is read first
current_environment_from_variable(cur, env) ==
    IF env_var_name \in DOMAIN env /\ from_string(env[env_var_name]).exc = "none"
    THEN from_string(env[env_var_name]).v
    ELSE IF cur # None THEN cur ELSE EnvV(Development)

\* the current_environment property: the memoized environment, or the one
\* named by the process variable, or development
current_environment(cur, env) ==
    IF cur # None THEN cur
    ELSE EnvOrDevelopment(from_string(IF env_var_name \in DOMAIN env
                                      THEN env[env_var_name]
                                      ELSE Development))

TrueWords == {<<"t","r","u","e">>, <<"y","e","s">>, <<"1">>, <<"o","n">>, <<"e","n","a","b","l","e","d">>}
FalseWords == {<<"f","a","l","s","e">>, <<"n","o">>, <<"0">>, <<"o","f","f">>, <<"d","i","s","a","b","l","e","d">>}

\* _convert_env_value: the outcome of the try block, or the string itself
NumberOrString(r, value) == IF r.exc = "none" THEN r.v ELSE StrV(value)

\* faulty variant of the conversion: numbers are tried before the boolean words
ConvertNumbersFirst(value, lower_value) ==
    IF int(value).exc = "none" THEN int(value).v
    ELSE IF lower_value \in TrueWords THEN BoolV(TRUE)
    ELSE IF lower_value \in FalseWords THEN BoolV(FALSE)
    ELSE NumberOrString(float(value), value)

\* _convert_env_value after lower_value = value.lower()
ConvertLowered(value, lower_value) ==
    IF lower_value \in TrueWords THEN BoolV(TRUE)
    ELSE IF lower_value \in FalseWords THEN BoolV(FALSE)
    ELSE NumberOrString(IF "." \notin Range(value) /\ "e" \notin Range(lower_value)
                        THEN int(value)
                        ELSE float(value),
                        value)

\* _convert_env_value(value)
convert_env_value(value) ==
    IF value = <<>> THEN StrV(<<>>) ELSE ConvertLowered(value, Lower(value))

\* the config key get_env_overrides derives from a variable name
ConfigKey(key, prefix) ==
    Replace(Lower(SubSeq(key, Len(prefix) + 1, Len(key))), "_", Sep)

\* the loop of get_env_overrides over os.environ.items(), visited in `order`
RECURSIVE OverridesLoop(_, _, _, _, _)
OverridesLoop(h, overrides, env, order, prefix) ==
    IF order = <<>> THEN h
    ELSE OverridesLoop(IF StartsWith(Head(order), prefix)
                       THEN set_nested_value(h, overrides,
                                             ConfigKey(Head(order), prefix),
                                             convert_env_value(env[Head(order)]))
                       ELSE h,
                       overrides, env, Tail(order), prefix)

\* get_env_overrides: the new overrides dict a, filled and cached
FillOverrides(a, cached, env, order, prefix, cache) ==
    [h |-> OverridesLoop(a.h, a.v, env, order, prefix),
     v |-> a.v,
     cached |-> IF cache THEN a.v ELSE cached]

\* faulty variant of get_env_overrides: the result is cached whatever cache says
get_env_overrides_storing(h, cached, env, order, prefix, cache) ==
    IF cache /\ cached # None
    THEN [h |-> h, v |-> cached, cached |-> cached]
    ELSE FillOverrides(Alloc(h, DictObj(EmptyMap)), cached, env, order, prefix, TRUE)

\* get_env_overrides(prefix, cache): the tree returned and the cache field after
get_env_overrides(h, cached, env, order, prefix, cache) ==
    IF cache /\ cached # None
    THEN [h |-> h, v |-> cached, cached |-> cached]
    ELSE FillOverrides(Alloc(h, DictObj(EmptyMap)), cached, env, order, prefix, cache)

\* get_environment_config_key(base_key)
get_environment_config_key(env, base_key) == env.value \o <<Sep>> \o base_key

-----------------------------------------------------------------------------
(* The file system and the loaders *)

Malformed == [t |-> "malformed"]

\* pathlib's suffix: from the last dot of the name, unless the name starts or
\* ends with that dot
Suffix(path) ==
    LET dots == {i \in 1..Len(path) : path[i] = "."}
        i == IF dots = {} THEN 0 ELSE CHOOSE j \in dots : \A k \in dots : k <= j
    IN  IF i <= 1 \/ i = Len(path) THEN <<>> ELSE SubSeq(path, i, Len(path))

\* _register_loaders: extension -> loader
loaders ==
    (<<".","y","a","m","l">> :> "yaml") @@ (<<".","y","m","l">> :> "yaml") @@
    (<<".","j","s","o","n">> :> "json") @@ (<<".","t","o","m","l">> :> "toml")

\* loader.load(file_path) on an existing file holding `data` once decoded
loader_load(loader, data) ==
    IF data = Malformed THEN Raised("ValueError")
    ELSE IF loader = "json"
    THEN IF data.t = "dict" THEN Returned(data) ELSE Raised("ValueError")
    ELSE IF data = None THEN Returned(DictT(EmptyMap))
    ELSE Returned(data)

-----------------------------------------------------------------------------
(* core.py: ConfigManager.  An operation maps the object `self` (a record of *)
(* its fields, the heap h and the process's environ and files) to the object *)
(* after the call, with the value returned in ret and the exception in exc.  *)

Self ==
    [h |-> heap, config_data |-> config_data, loaded_files |-> loaded_files,
     resolved_cache |-> resolved_cache, current_env |-> current_env,
     env_overrides_cache |-> env_overrides_cache, environ |-> environ,
     files |-> files, ret |-> None, exc |-> "none"]

\* ConfigManager(): the fields set by __init__
init_config_manager(env, fs) ==
    [h |-> <<DictObj(EmptyMap)>>, config_data |-> Ref(1), loaded_files |-> <<>>,
     resolved_cache |-> None, current_env |-> None,
     env_overrides_cache |-> None, environ |-> env, files |-> fs,
     ret |-> None, exc |-> "none"]

Raise(self, e) == [self EXCEPT !.exc = e]

\* faulty variant of the merge of a load: the tree already loaded wins
MergeUnderConfig(self, data) ==
    LET r == deep_merge(self.h, data, self.config_data)
    IN  [self EXCEPT !.h = r.h, !.config_data = r.v]

\* self.config_data = deep_merge(self.config_data, data), data being a dict
MergeIntoConfig(self, data) ==
    LET r == deep_merge(self.h, self.config_data, data)
    IN  [self EXCEPT !.h = r.h, !.config_data = r.v]

\* faulty variant of load_file: the cache is cleared and the path recorded
\* before the file is decoded
load_file_recording_first(self, file_path) ==
    IF ~self.files[file_path].exists THEN Raise(self, "FileNotFoundError")
    ELSE IF Lower(Suffix(file_path)) \notin DOMAIN loaders
    THEN Raise(self, "ValueError")
    ELSE LET file_data == loader_load(loaders[Lower(Suffix(file_path))],
                                      self.files[file_path].data)
             s == [self EXCEPT !.loaded_files = Append(@, file_path),
                               !.resolved_cache = None]
         IN  IF file_data.exc # "none" THEN Raise(s, "ValueError")
             ELSE IF file_data.v.t # "dict" THEN Raise(s, "AttributeError")
             ELSE LET b == Build(s.h, file_data.v)
                  IN  MergeIntoConfig([s EXCEPT !.h = b.h], b.v)

load_file(self, file_path) ==
    IF ~self.files[file_path].exists THEN Raise(self, "FileNotFoundError")
    ELSE IF Lower(Suffix(file_path)) \notin DOMAIN loaders
    THEN Raise(self, "ValueError")
    ELSE LET file_data == loader_load(loaders[Lower(Suffix(file_path))],
                                      self.files[file_path].data)
         IN  IF file_data.exc # "none" THEN Raise(self, "ValueError")
             ELSE IF file_data.v.t # "dict" THEN Raise(self, "AttributeError")
             ELSE LET b == Build(self.h, file_data.v)
                      m == MergeIntoConfig([self EXCEPT !.h = b.h], b.v)
                  IN  [m EXCEPT !.loaded_files = Append(@, file_path),
                                !.resolved_cache = None]

\* load_dict(config_dict), config_dict being the caller's dict object
load_dict(self, config_dict) ==
    [MergeIntoConfig(self, config_dict) EXCEPT !.resolved_cache = None]

\* faulty variant of set_environment: the cache is cleared before the parse
EM_set_environment_clearing_first(self, environment) ==
    LET r == from_string(environment)
    IN  IF r.exc # "none" THEN Raise([self EXCEPT !.env_overrides_cache = None], r.exc)
        ELSE [self EXCEPT !.current_env = r.v, !.env_overrides_cache = None]

\* EnvironmentManager.set_environment(environment) for a string
EM_set_environment(self, environment) ==
    LET r == from_string(environment)
    IN  IF r.exc # "none" THEN Raise(self, r.exc)
        ELSE [self EXCEPT !.current_env = r.v, !.env_overrides_cache = None]

set_environment(self, environment) ==
    LET e == EM_set_environment(self, environment)
    IN  IF e.exc # "none" THEN e ELSE [e EXCEPT !.resolved_cache = None]

\* get_env_overrides returned r: the manager's cache field and the result
StoreOverrides(self, r) ==
    [self EXCEPT !.h = r.h, !.env_overrides_cache = r.cached, !.ret = r.v]

\* EnvironmentManager.get_env_overrides(prefix, cache) on self.env_manager
EM_get_env_overrides(self, order, prefix, cache) ==
    StoreOverrides(self, get_env_overrides(self.h, self.env_overrides_cache,
                                           self.environ, order, prefix, cache))

\* EnvironmentManager.clear_cache()
clear_cache(self) == [self EXCEPT !.env_overrides_cache = None]

\* apply_env_overrides once get_env_overrides has returned in o.ret
ApplyOverrides(o) ==
    IF DOMAIN o.h[o.ret.id].m # {}
    THEN [MergeIntoConfig(o, o.ret) EXCEPT !.resolved_cache = None, !.ret = None]
    ELSE [o EXCEPT !.ret = None]

apply_env_overrides(self, order, prefix) ==
    ApplyOverrides(EM_get_env_overrides(self, order, prefix, TRUE))

\* faulty variant of the read of current_environment: the process variable is
\* parsed at every read
WithEnvironmentRead(self) ==
    [self EXCEPT !.current_env = current_environment(None, self.environ)]

\* reading self.env_manager.current_environment memoizes it
WithEnvironment(self) ==
    [self EXCEPT !.current_env = current_environment(self.current_env, self.environ)]

\* the value of the current_environment property
EM_current_environment(self) ==
    LET s == WithEnvironment(self) IN [s EXCEPT !.ret = s.current_env]

\* faulty variant of get: the environment-specific tier is not probed
get_bare(self, key_path, default) ==
    [WithEnvironment(self) EXCEPT
        !.ret = get_nested_value(self.h, self.config_data, key_path, default)]

\* faulty variant of get: the general value is preferred to the
\* environment-specific one
get_general_first(self, key_path, default) ==
    LET s == WithEnvironment(self)
        env_key == get_environment_config_key(s.current_env, key_path)
        value == get_nested_value(s.h, s.config_data, key_path, None)
    IN  IF value # None THEN [s EXCEPT !.ret = value]
        ELSE [s EXCEPT !.ret = get_nested_value(s.h, s.config_data, env_key, default)]

get(self, key_path, default) ==
    LET s == WithEnvironment(self)
        env_key == get_environment_config_key(s.current_env, key_path)
        env_value == get_nested_value(s.h, s.config_data, env_key, None)
    IN  IF env_value # None THEN [s EXCEPT !.ret = env_value]
        ELSE [s EXCEPT !.ret = get_nested_value(s.h, s.config_data, key_path, default)]

\* faulty variant of set: the cache survives the mutation
set_keeping_cache(self, key_path, value) ==
    [self EXCEPT !.h = set_nested_value(self.h, self.config_data, key_path, value)]

set(self, key_path, value) ==
    [self EXCEPT !.h = set_nested_value(self.h, self.config_data, key_path, value),
                 !.resolved_cache = None]

\* faulty variant of has: a key holding None counts as absent
has_value(self, key_path) ==
    [WithEnvironment(self) EXCEPT
        !.ret = BoolV(get(self, key_path, None).ret # None)]

\* faulty variant of has: the environment-specific key is not looked for
has_general_only(self, key_path) ==
    LET s == WithEnvironment(self)
    IN  [s EXCEPT !.ret = BoolV(has_nested_key(s.h, s.config_data, key_path))]

has(self, key_path) ==
    LET s == WithEnvironment(self)
        env_key == get_environment_config_key(s.current_env, key_path)
    IN  [s EXCEPT !.ret = BoolV(\/ has_nested_key(s.h, s.config_data, env_key)
                                \/ has_nested_key(s.h, s.config_data, key_path))]

\* the walk of delete to the parent of the last key: the parent, or None when
\* indexing raises KeyError or TypeError
RECURSIVE DeleteWalk(_, _, _)
DeleteWalk(h, current_data, keys) ==
    IF Len(keys) = 1 THEN current_data
    ELSE IF ~IsDict(h, current_data) THEN None
    ELSE IF Head(keys) \notin DOMAIN h[current_data.id].m THEN None
    ELSE DeleteWalk(h, h[current_data.id].m[Head(keys)], Tail(keys))

\* faulty variant of delete: the KeyError and TypeError of the walk are not
\* caught
delete_uncaught(self, key_path) ==
    LET keys == Split(key_path, Sep)
        parent == DeleteWalk(self.h, self.config_data, keys)
        key == keys[Len(keys)]
    IN  IF ~IsDict(self.h, parent) THEN Raise(self, "KeyError")
        ELSE IF key \in DOMAIN self.h[parent.id].m
        THEN [self EXCEPT !.h = [@ EXCEPT ![parent.id].m = DelKey(@, key)],
                          !.resolved_cache = None]
        ELSE self

delete(self, key_path) ==
    LET keys == Split(key_path, Sep)
        parent == DeleteWalk(self.h, self.config_data, keys)
        key == keys[Len(keys)]
    IN  IF IsDict(self.h, parent) /\ key \in DOMAIN self.h[parent.id].m
        THEN [self EXCEPT !.h = [@ EXCEPT ![parent.id].m = DelKey(@, key)],
                          !.resolved_cache = None]
        ELSE self

\* update(updates): set() for each item, in the order of the dict
RECURSIVE update(_, _)
update(self, updates) ==
    IF updates = <<>> THEN self
    ELSE update(set(self, updates[1][1], updates[1][2]), Tail(updates))

\* faulty variant of the resolution: the environment block is removed but not
\* merged
ResolveWithoutOverlay(self) ==
    LET c == ShallowCopy(self.h, self.config_data)
        s == WithEnvironment([self EXCEPT !.h = c.h])
    IN  [s EXCEPT !.h = [@ EXCEPT ![c.v.id].m = DelKey(@, s.current_env.value)],
                  !.ret = c.v]

\* the computation of get_resolved_config when the cache is not used
ResolveFresh(self) ==
    LET c == ShallowCopy(self.h, self.config_data)
        s == WithEnvironment([self EXCEPT !.h = c.h])
        env_key == s.current_env.value
        m == s.h[c.v.id].m
    IN  IF env_key \in DOMAIN m
        THEN LET env_config == m[env_key]
                 popped == [s EXCEPT !.h = [@ EXCEPT ![c.v.id].m = DelKey(@, env_key)]]
             IN  IF IsDict(popped.h, env_config)
                 THEN LET r == deep_merge(popped.h, c.v, env_config)
                      IN  [popped EXCEPT !.h = r.h, !.ret = r.v]
                 ELSE [popped EXCEPT !.ret = c.v]
        ELSE [s EXCEPT !.ret = c.v]

get_resolved_config(self, use_cache) ==
    IF use_cache /\ self.resolved_cache # None
    THEN [self EXCEPT !.ret = self.resolved_cache]
    ELSE LET r == ResolveFresh(self)
         IN  IF use_cache THEN [r EXCEPT !.resolved_cache = r.ret] ELSE r

\* faulty variant of clear: the environment manager is reset as well
clear_manager_too(self) ==
    LET a == Alloc(self.h, DictObj(EmptyMap))
    IN  [self EXCEPT !.h = a.h, !.config_data = a.v, !.loaded_files = <<>>,
                     !.resolved_cache = None, !.current_env = None,
                     !.env_overrides_cache = None]

clear(self) ==
    LET a == Alloc(self.h, DictObj(EmptyMap))
    IN  [self EXCEPT !.h = a.h, !.config_data = a.v, !.loaded_files = <<>>,
                     !.resolved_cache = None]

\* faulty variant of the loop of reload: a recorded file is not looked for
\* before it is loaded
RECURSIVE ReloadLoopUnguarded(_, _)
ReloadLoopUnguarded(self, files_to_reload) ==
    IF files_to_reload = <<>> THEN self
    ELSE LET l == load_file(self, Head(files_to_reload))
         IN  IF l.exc # "none" THEN l
             ELSE ReloadLoopUnguarded(l, Tail(files_to_reload))

\* the loop of reload over files_to_reload; a raising load_file ends it
RECURSIVE ReloadLoop(_, _)
ReloadLoop(self, files_to_reload) ==
    IF files_to_reload = <<>> THEN self
    ELSE IF ~self.files[Head(files_to_reload)].exists
    THEN ReloadLoop(self, Tail(files_to_reload))
    ELSE LET l == load_file(self, Head(files_to_reload))
         IN  IF l.exc # "none" THEN l ELSE ReloadLoop(l, Tail(files_to_reload))

\* faulty variant of reload: the files are loaded again over the current tree
reload_over_current(self) ==
    ReloadLoop([self EXCEPT !.loaded_files = <<>>, !.resolved_cache = None],
               self.loaded_files)

\* reload(): the fields are reset as in clear(), then the files are loaded again
reload(self) ==
    LET a == Alloc(self.h, DictObj(EmptyMap))
    IN  ReloadLoop([self EXCEPT !.h = a.h, !.config_data = a.v,
                                !.loaded_files = <<>>, !.resolved_cache = None],
                   self.loaded_files)

\* faulty variant of config[key]: a null value raises KeyError
getitem_raising_on_null(self, key) ==
    LET g == get(self, key, None)
    IN  IF g.ret = None THEN Raise(g, "KeyError") ELSE g

\* config[key]
__getitem__(self, key) ==
    LET g == get(self, key, None)
        h == has(g, key)
    IN  IF g.ret = None /\ h.ret = BoolV(FALSE)
        THEN Raise([h EXCEPT !.ret = None], "KeyError")
        ELSE [h EXCEPT !.ret = g.ret]

\* config[key] = value
__setitem__(self, key, value) == set(self, key, value)

\* faulty variant of del config[key]: the key is checked and not deleted
delitem_checking_only(self, key) ==
    LET h == [has(self, key) EXCEPT !.ret = None]
    IN  IF ~has(self, key).ret.b THEN Raise(h, "KeyError") ELSE h

\* del config[key]
__delitem__(self, key) ==
    LET h == [has(self, key) EXCEPT !.ret = None]
    IN  IF ~has(self, key).ret.b THEN Raise(h, "KeyError")
        ELSE delete(h, key)

\* key in config
__contains__(self, key) == has(self, key)

-----------------------------------------------------------------------------
(* The inputs the calls are made with *)

K_a == <<"a">>
K_b == <<"b">>

P_a == K_a
P_ab == K_a \o <<Sep>> \o K_b
P_b == K_b
P_dev_a == Development \o <<Sep>> \o K_a

\* dicts given to load_dict
T_base == DictT((K_a :> DictT((K_a :> IntV(1)) @@ (K_b :> IntV(2)))) @@
                (Development :> DictT((K_a :> DictT((K_a :> IntV(9)))))))
T_null == DictT((K_a :> DictT((K_b :> None))) @@
                (Production :> DictT((K_a :> IntV(7)))))
T_self == DictT((K_a :> IntV(5)) @@
                (Development :> DictT((Development :> IntV(3)) @@
                                      (K_b :> ListT(<<IntV(1)>>)))))
LoadDicts == {T_base, T_null, T_self}

\* the files of the file system
F_json == <<"f",".","j","s","o","n">>
F_yml == <<"g",".","Y","M","L">>
F_txt == <<"h",".","t","x","t">>
F_missing == <<"m",".","j","s","o","n">>

FilePaths == {F_json, F_yml, F_txt, F_missing}

InitialFiles ==
    (F_json :> [exists |-> TRUE,
                data |-> DictT((K_a :> DictT((K_b :> IntV(3)))) @@ (K_b :> IntV(1)))]) @@
    (F_yml :> [exists |-> TRUE,
               data |-> DictT((K_a :> DictT((K_a :> IntV(6)) @@ (K_b :> IntV(4)))) @@
                              (Production :> DictT((K_a :> DictT((K_b :> IntV(5)))))))]) @@
    (F_txt :> [exists |-> TRUE, data |-> DictT((K_a :> IntV(0)))]) @@
    (F_missing :> [exists |-> FALSE, data |-> None])

\* process environment variables
N_config_a_b == <<"C","O","N","F","I","G","_","A","_","B">>
N_config_b == <<"C","O","N","F","I","G","_","B">>
N_app_b == <<"A","P","P","_","B">>

Prefix_config == <<"C","O","N","F","I","G","_">>
Prefix_app == <<"A","P","P","_">>
Prefixes == {Prefix_config, Prefix_app}

InitialEnvirons ==
    { (N_config_a_b :> <<"4","2">>) @@ (N_app_b :> <<"o","n">>),
      EmptyMap }

Putenvs == {<<N_config_b, <<"x">>>>, <<env_var_name, <<"P","r","o","d">>>>}

SetPaths == {P_ab, P_dev_a}
SetValues == {IntV(8), None}
GetPaths == {P_a, P_ab}
GetDefaults == {None, IntV(0)}
EnvironmentNames == {<<"p","r","o","d">>, <<" ","D","e","v","e","l","o","p","m","e","n","t">>, <<"b","o","g","u","s">>}
Updates == {<<<<P_dev_a, IntV(8)>>, <<P_b, None>>>>}

\* the orders in which os.environ.items() may yield the variables: the ones
\* that start with the prefix in any order (the others are skipped wherever
\* they are met, so they are put last)
Arrangements(S) == {o \in [1..Cardinality(S) -> S] : Range(o) = S}
Orders(env, prefix) ==
    {o \o KeySeq({n \in DOMAIN env : ~StartsWith(n, prefix)}) :
        o \in Arrangements({n \in DOMAIN env : StartsWith(n, prefix)})}

-----------------------------------------------------------------------------
(* The state machine: one action per call on the ConfigManager *)

\* the call `op(args)` took self to r
Call(op, args, r) ==
    /\ steps < MaxSteps
    /\ LET c == Compact(r.h, <<r.config_data, r.resolved_cache,
                               r.env_overrides_cache, r.ret>>)
       IN  /\ heap' = c.h
           /\ config_data' = RenV(c.order, r.config_data)
           /\ resolved_cache' = RenV(c.order, r.resolved_cache)
           /\ env_overrides_cache' = RenV(c.order, r.env_overrides_cache)
           /\ last' = [op |-> op, args |-> args, ret |-> RenV(c.order, r.ret),
                       exc |-> r.exc]
    /\ loaded_files' = r.loaded_files
    /\ current_env' = r.current_env
    /\ steps' = steps + 1
    /\ UNCHANGED <<environ, files, m_in, m_out, rules>>

NoCall == [op |-> "init", args |-> <<>>, ret |-> None, exc |-> "none"]

Init ==
    /\ environ \in InitialEnvirons
    /\ files = InitialFiles
    /\ LET s == init_config_manager(environ, files)
       IN  /\ heap = s.h
           /\ config_data = s.config_data
           /\ loaded_files = s.loaded_files
           /\ resolved_cache = s.resolved_cache
           /\ current_env = s.current_env
           /\ env_overrides_cache = s.env_overrides_cache
    /\ last = NoCall
    /\ steps = 0
    /\ rules = <<>>
    /\ m_in = <<>>
    /\ m_out = None

LoadFile == \E f \in FilePaths : Call("load_file", <<f>>, load_file(Self, f))

LoadDict ==
    \E d \in LoadDicts :
        LET b == Build(heap, d)
        IN  Call("load_dict", <<d>>, load_dict([Self EXCEPT !.h = b.h], b.v))

SetEnvironment ==
    \E e \in EnvironmentNames :
        Call("set_environment", <<e>>, set_environment(Self, e))

ApplyEnvOverrides ==
    \E p \in Prefixes : \E o \in Orders(environ, p) :
        Call("apply_env_overrides", <<p>>, apply_env_overrides(Self, o, p))

GetEnvOverrides ==
    \E p \in Prefixes : \E o \in Orders(environ, p), cache \in BOOLEAN :
        Call("get_env_overrides", <<p, cache>>,
             EM_get_env_overrides(Self, o, p, cache))

Get ==
    \E p \in GetPaths, d \in GetDefaults :
        Call("get", <<p, d>>, get(Self, p, d))

Set ==
    \E p \in SetPaths, v \in SetValues :
        Call("set", <<p, v>>, set(Self, p, v))

Has == \E p \in GetPaths : Call("has", <<p>>, has(Self, p))

Delete == \E p \in SetPaths : Call("delete", <<p>>, delete(Self, p))

Update == \E u \in Updates : Call("update", <<u>>, update(Self, u))

GetResolvedConfig ==
    \E use_cache \in BOOLEAN :
        Call("get_resolved_config", <<use_cache>>,
             get_resolved_config(Self, use_cache))

Clear == Call("clear", <<>>, clear(Self))

Reload == Call("reload", <<>>, reload(Self))

\* the process changes one of its environment variables
Putenv ==
    \E p \in Putenvs :
        /\ steps < MaxSteps
        /\ environ' = SetKey(environ, p[1], p[2])
        /\ last' = [op |-> "putenv", args |-> p, ret |-> None, exc |-> "none"]
        /\ steps' = steps + 1
        /\ UNCHANGED <<heap, config_data, loaded_files, resolved_cache, current_env,
                       env_overrides_cache, files, m_in, m_out, rules>>

Next ==
    \/ LoadFile
    \/ LoadDict
    \/ SetEnvironment
    \/ ApplyEnvOverrides
    \/ GetEnvOverrides
    \/ Get
    \/ Set
    \/ Has
    \/ Delete
    \/ Update
    \/ GetResolvedConfig
    \/ Clear
    \/ Reload
    \/ Putenv

Spec == Init /\ [][Next]_vars

-----------------------------------------------------------------------------
(* deep_merge applied on its own: a caller merges two of its dicts and then  *)
(* changes the result or an argument in place                                *)

MergeKeys == {K_a, K_b}
MergeLeaves == {IntV(1), None, ListT(<<IntV(2)>>)}
MergeInner == {DictT(K_b :> IntV(3)),
               DictT((K_a :> None) @@ (K_b :> ListT(<<IntV(2)>>)))}
MergeDeep ==
    {DictT(K_a :> DictT(K_a :> DictT((K_a :> IntV(1)) @@ (K_b :> ListT(<<IntV(2)>>))))),
     DictT(K_a :> DictT((K_a :> DictT(K_b :> None)) @@ (K_b :> IntV(1))))}

\* the dicts with keys among MergeKeys and values among `values`
DictsOver(values) ==
    {DictT(m) : m \in UNION {[ks -> values] : ks \in SUBSET MergeKeys}}

\* the dicts given to deep_merge
MergeTrees == DictsOver(MergeLeaves \cup MergeInner) \cup MergeDeep

\* the two arguments are new objects of the caller, or one and the same object
InitMerge ==
    /\ \E base \in MergeTrees, overlay \in MergeTrees, same \in BOOLEAN :
         /\ same => base = overlay
         /\ LET b == Build(<<>>, base)
                o == IF same THEN b ELSE Build(b.h, overlay)
            IN  /\ heap = o.h
                /\ m_in = [base |-> b.v, overlay |-> o.v]
                /\ last = [op |-> "init", args |-> <<base, overlay>>,
                           ret |-> None, exc |-> "none"]
    /\ m_out = None
    /\ steps = 0
    /\ rules = <<>>
    /\ config_data = None
    /\ loaded_files = <<>>
    /\ resolved_cache = None
    /\ current_env = None
    /\ env_overrides_cache = None
    /\ environ = EmptyMap
    /\ files = EmptyMap

\* result = deep_merge(base, overlay); last keeps the trees of the arguments
\* at the call and the tree returned
DeepMerge ==
    /\ m_out = None
    /\ LET r == deep_merge(heap, m_in.base, m_in.overlay)
       IN  /\ heap' = r.h
           /\ m_out' = r.v
           /\ last' = [last EXCEPT !.op = "deep_merge", !.ret = Val(r.h, r.v)]
    /\ steps' = steps + 1
    /\ UNCHANGED <<m_in, config_data, loaded_files, resolved_cache, current_env,
                   env_overrides_cache, environ, files, rules>>

MutationPaths == {P_ab, P_b, K_a \o <<Sep>> \o P_ab}
MutationKinds == {"set", "del", "append"}

\* del d[k1]...[kn] when the key is there
DeleteAt(h, parent, key) ==
    IF IsDict(h, parent) /\ key \in DOMAIN h[parent.id].m
    THEN [h EXCEPT ![parent.id].m = DelKey(@, key)]
    ELSE h

\* d[k1]...[kn].append(8) when a list is there
AppendAt(h, v) ==
    IF v.t = "ref" /\ ~IsDict(h, v) THEN [h EXCEPT ![v.id].e = Append(@, IntV(8))]
    ELSE h

\* an in-place change of the dict d by its holder
InPlace(h, d, kind, path) ==
    IF kind = "set" THEN set_nested_value(h, d, path, IntV(8))
    ELSE IF kind = "del"
    THEN DeleteAt(h, DeleteWalk(h, d, Split(path, Sep)),
                  Split(path, Sep)[Len(Split(path, Sep))])
    ELSE AppendAt(h, get_nested_value(h, d, path, None))

Mutate(d, op) ==
    /\ last.op = "deep_merge"
    /\ \E kind \in MutationKinds, path \in MutationPaths :
         /\ InPlace(heap, d, kind, path) # heap
         /\ heap' = InPlace(heap, d, kind, path)
    /\ last' = [last EXCEPT !.op = op]
    /\ steps' = steps + 1
    /\ UNCHANGED <<m_in, m_out, config_data, loaded_files, resolved_cache,
                   current_env, env_overrides_cache, environ, files, rules>>

\* the caller changes the merged dict in place
MutateResult == Mutate(m_out, "mutate_result")

\* the caller changes one of the arguments in place
MutateInput == \E d \in {m_in.base, m_in.overlay} : Mutate(d, "mutate_input")

NextMerge ==
    \/ DeepMerge
    \/ MutateResult
    \/ MutateInput

SpecMerge == InitMerge /\ [][NextMerge]_vars

-----------------------------------------------------------------------------
(* _convert_env_value applied on its own to the value of a variable *)

ConvChars == {"0", "1", "-", "+", ".", "e", "E", "n", "o", "i", "f", "a", "_", " "}

\* longer values: the boolean words, numbers and names of special floats
ConvWords ==
    {<<"t","r","u","e">>, <<"T","R","U","E">>, <<"Y","e","s">>,
     <<"e","n","a","b","l","e","d">>, <<"F","a","l","s","e">>,
     <<"d","i","s","a","b","l","e","d">>, <<"I","n","f","i","n","i","t","y">>,
     <<"-","n","a","n">>, <<"3",".","1","4">>, <<"1",".","5","e","1","0">>,
     <<"1","e","4","0","0">>, <<"1","e","-","4","0","0">>, <<" ","4","2"," ">>,
     <<"0","x","1","0">>, <<"h","e","l","l","o">>}

ConvStrings == UNION {[1..n -> ConvChars] : n \in 0..MaxStrLen} \cup ConvWords

InitConv ==
    /\ m_in \in ConvStrings
    /\ m_out = None
    /\ last = NoCall
    /\ steps = 0
    /\ rules = <<>>
    /\ heap = <<>>
    /\ config_data = None
    /\ loaded_files = <<>>
    /\ resolved_cache = None
    /\ current_env = None
    /\ env_overrides_cache = None
    /\ environ = EmptyMap
    /\ files = EmptyMap

ConvertEnvValue ==
    /\ steps = 0
    /\ m_out' = convert_env_value(m_in)
    /\ last' = [op |-> "_convert_env_value", args |-> <<m_in>>,
                ret |-> convert_env_value(m_in), exc |-> "none"]
    /\ steps' = 1
    /\ UNCHANGED <<m_in, heap, config_data, loaded_files, resolved_cache,
                   current_env, env_overrides_cache, environ, files, rules>>

NextConv == ConvertEnvValue

SpecConv == InitConv /\ [][NextConv]_vars

-----------------------------------------------------------------------------
(* An EnvironmentManager used on its own: reads of current_environment,     *)
(* set_environment, get_env_overrides and clear_cache, in a process that    *)
(* changes its environment variables between the calls                      *)

N_config_a == <<"C","O","N","F","I","G","_","A">>

ManagerEnvirons ==
    { (N_config_a_b :> <<"4","2">>) @@ (N_app_b :> <<"o","n">>),
      (env_var_name :> <<" ","S","T","A","G","E"," ">>),
      (env_var_name :> <<"n","o","p","e">>) @@ (N_config_a :> <<"1">>) }

ManagerPutenvs ==
    {<<N_config_a_b, <<"x">>>>, <<env_var_name, <<"L","i","v","e">>>>,
     <<env_var_name, <<>>>>}

\* the call `op(args)` took the manager to r
ManagerCall(op, args, r) ==
    /\ steps < MaxEnvSteps
    /\ LET c == Compact(r.h, <<r.env_overrides_cache, r.ret>>)
       IN  /\ heap' = c.h
           /\ env_overrides_cache' = RenV(c.order, r.env_overrides_cache)
           /\ last' = [op |-> op, args |-> args, ret |-> RenV(c.order, r.ret),
                       exc |-> r.exc]
    /\ current_env' = r.current_env
    /\ steps' = steps + 1
    /\ UNCHANGED <<config_data, loaded_files, resolved_cache, environ, files,
                   m_in, m_out, rules>>

\* EnvironmentManager(): no environment set, no overrides cached
InitEnv ==
    /\ environ \in ManagerEnvirons
    /\ files = EmptyMap
    /\ heap = <<>>
    /\ config_data = None
    /\ loaded_files = <<>>
    /\ resolved_cache = None
    /\ current_env = None
    /\ env_overrides_cache = None
    /\ last = NoCall
    /\ steps = 0
    /\ rules = <<>>
    /\ m_in = <<>>
    /\ m_out = None

ReadCurrentEnvironment ==
    ManagerCall("current_environment", <<>>, EM_current_environment(Self))

ManagerSetEnvironment ==
    \E e \in EnvironmentNames :
        ManagerCall("set_environment", <<e>>, EM_set_environment(Self, e))

ManagerGetEnvOverrides ==
    \E p \in Prefixes : \E o \in Orders(environ, p), cache \in BOOLEAN :
        ManagerCall("get_env_overrides", <<p, cache>>,
                    EM_get_env_overrides(Self, o, p, cache))

ClearCache == ManagerCall("clear_cache", <<>>, clear_cache(Self))

ManagerPutenv ==
    \E p \in ManagerPutenvs :
        /\ steps < MaxEnvSteps
        /\ environ' = SetKey(environ, p[1], p[2])
        /\ last' = [op |-> "putenv", args |-> p, ret |-> None, exc |-> "none"]
        /\ steps' = steps + 1
        /\ UNCHANGED <<heap, config_data, loaded_files, resolved_cache, current_env,
                       env_overrides_cache, files, m_in, m_out, rules>>

NextEnv ==
    \/ ReadCurrentEnvironment
    \/ ManagerSetEnvironment
    \/ ManagerGetEnvOverrides
    \/ ClearCache
    \/ ManagerPutenv

SpecEnv == InitEnv /\ [][NextEnv]_vars

-----------------------------------------------------------------------------
(* Environment.from_string applied on its own to the aliases and canonical  *)
(* names, as they are, in upper case, and surrounded by whitespace         *)

EnvironmentAliases == DOMAIN env_map \cup Environments

RECURSIVE Paddings(_)
Paddings(n) ==
    IF n = 0 THEN {<<>>}
    ELSE Paddings(n - 1) \cup
         {<<c>> \o p : c \in {" ", "\t", "\n"}, p \in {q \in Paddings(n - 1) : Len(q) = n - 1}}

Spelled(x, upper, left, right) == left \o (IF upper THEN Upper(x) ELSE x) \o right

Spellings(x) ==
    {Spelled(x, u, l, r) : u \in BOOLEAN, l \in Paddings(MaxPad), r \in Paddings(MaxPad)}

InitAlias ==
    /\ \E x \in EnvironmentAliases : \E str \in Spellings(x) : m_in = <<str>>
    /\ m_out = None
    /\ last = NoCall
    /\ steps = 0
    /\ rules = <<>>
    /\ environ = EmptyMap
    /\ files = EmptyMap
    /\ heap = <<>>
    /\ config_data = None
    /\ loaded_files = <<>>
    /\ resolved_cache = None
    /\ current_env = None
    /\ env_overrides_cache = None

FromString ==
    /\ steps = 0
    /\ m_out' = from_string(m_in[1])
    /\ last' = [op |-> "from_string", args |-> m_in, ret |-> m_out'.v,
                exc |-> m_out'.exc]
    /\ steps' = 1
    /\ UNCHANGED <<heap, config_data, loaded_files, resolved_cache, current_env,
                   env_overrides_cache, environ, files, m_in, rules>>

NextAlias == FromString

SpecAlias == InitAlias /\ [][NextAlias]_vars

-----------------------------------------------------------------------------
(* validators.py: ValidationRule and ConfigValidator *)

\* str(n) for an integer
RECURSIVE NatStr(_)
NatStr(n) ==
    IF n < 10 THEN <<DigitChars[n + 1]>>
    ELSE NatStr(n \div 10) \o <<DigitChars[(n % 10) + 1]>>

IntStr(n) == IF n < 0 THEN <<"-">> \o NatStr(-n) ELSE NatStr(n)

\* repr(value) of a scalar
py_repr(v) ==
    CASE v.t = "int" -> IntStr(v.n)
      [] v.t = "bool" -> IF v.b THEN <<"T","r","u","e">> ELSE <<"F","a","l","s","e">>
      [] v.t = "str" -> <<"'">> \o v.s \o <<"'">>
      [] v.t = "null" -> <<"N","o","n","e">>

RECURSIVE JoinRepr(_)
JoinRepr(e) ==
    IF e = <<>> THEN <<>>
    ELSE IF Len(e) = 1 THEN py_repr(e[1])
    ELSE py_repr(e[1]) \o <<",", " ">> \o JoinRepr(Tail(e))

\* str(value), which is what f"{value}" formats: a string as it is, a list of
\* scalars as its repr, another scalar as its repr
py_str(v) ==
    CASE v.t = "str" -> v.s
      [] v.t = "list" -> <<"[">> \o JoinRepr(v.e) \o <<"]">>
      [] v.t \in {"int", "bool", "null"} -> py_repr(v)

RECURSIVE Pow10(_)
Pow10(n) == IF n = 0 THEN 1 ELSE 10 * Pow10(n - 1)

\* int(value) of the finite float mant * 10^exp: the fraction is dropped
Truncated(mant, exp) ==
    IF exp >= 0 THEN mant * Pow10(exp)
    ELSE IF mant < 0 THEN -((-mant) \div Pow10(-exp))
    ELSE mant \div Pow10(-exp)

\* int(value) for a value of any of these types
py_int(v) ==
    CASE v.t = "int" -> Returned(v)
      [] v.t = "bool" -> Returned(IntV(IF v.b THEN 1 ELSE 0))
      [] v.t = "str" -> int(v.s)
      [] v.t = "float" -> IF v.kind = "finite" THEN Returned(IntV(Truncated(v.mant, v.exp)))
                          ELSE IF v.kind = "nan" THEN Raised("ValueError")
                          ELSE Raised("OverflowError")
      [] v.t \in {"null", "list", "dict"} -> Raised("TypeError")

\* len(value) for a string, a list or a dict
py_len(v) ==
    CASE v.t = "str" -> Len(v.s)
      [] v.t = "list" -> Len(v.e)
      [] v.t = "dict" -> Cardinality(DOMAIN v.m)

Letters == Range(LowerChars) \cup Range(UpperChars)
Alphanumerics == Letters \cup Range(DigitChars)

\* str.find(c) counted from 1: 0 when c is not in s
Find(s, c) ==
    IF c \notin Range(s) THEN 0
    ELSE CHOOSE i \in 1..Len(s) : s[i] = c /\ \A j \in 1..(i - 1) : s[j] # c

\* urlparse(url).scheme: the characters before the first ':' when they start
\* with a letter and are all scheme characters
url_scheme(url) ==
    IF /\ Find(url, ":") > 1
       /\ url[1] \in Letters
       /\ \A j \in 1..(Find(url, ":") - 1) : url[j] \in Alphanumerics \cup {"+", "-", "."}
    THEN Lower(SubSeq(url, 1, Find(url, ":") - 1))
    ELSE <<>>

\* urlparse(url).netloc: what follows '//' after the scheme, up to the first
\* '/', '?' or '#'
url_netloc(url) ==
    LET rest == IF url_scheme(url) = <<>> THEN url
                ELSE SubSeq(url, Find(url, ":") + 1, Len(url))
        after == SubSeq(rest, 3, Len(rest))
        ends == {i \in 1..Len(after) : after[i] \in {"/", "?", "#"}}
    IN  IF ~StartsWith(rest, <<"/", "/">>) THEN <<>>
        ELSE IF ends = {} THEN after
        ELSE SubSeq(after, 1, (CHOOSE i \in ends : \A j \in ends : i <= j) - 1)

\* urlparse raises ValueError for a netloc with one bracket and not the
\* other (a netloc with both holds an IP literal, which no value here does)
url_raises(url) ==
    CASE "[" \notin Range(url_netloc(url)) /\ "]" \notin Range(url_netloc(url)) -> FALSE
      [] ("[" \in Range(url_netloc(url))) # ("]" \in Range(url_netloc(url))) -> TRUE

\* urlparse first drops the leading spaces and every tab and newline
RECURSIVE url_cleaned(_)
url_cleaned(url) ==
    IF url # <<>> /\ IsSpace(Head(url)) THEN url_cleaned(Tail(url))
    ELSE SelectSeq(url, LAMBDA c : c \notin {"\t", "\n"})

\* is_valid_url once str(value) is cleaned
UrlValid(url) ==
    IF url_raises(url) THEN Returned(BoolV(FALSE))
    ELSE Returned(BoolV(url_scheme(url) # <<>> /\ url_netloc(url) # <<>>))

\* _register_built_in_rules: is_valid_url
is_valid_url(value) == UrlValid(url_cleaned(py_str(value)))

\* faulty variant of is_valid_port: the range starts at 0
is_valid_port_from_zero(value) ==
    IF py_int(value).exc # "none" THEN Returned(BoolV(FALSE))
    ELSE Returned(BoolV(0 <= py_int(value).v.n /\ py_int(value).v.n <= 65535))

\* _register_built_in_rules: is_valid_port
is_valid_port(value) ==
    IF py_int(value).exc # "none" THEN Returned(BoolV(FALSE))
    ELSE Returned(BoolV(1 <= py_int(value).v.n /\ py_int(value).v.n <= 65535))

\* the pattern of is_valid_email matched against s (a final newline is allowed
\* by '$')
MatchesEmail(s) ==
    \E at \in 2..Len(s), dot \in 1..Len(s), end \in {Len(s), Len(s) - 1} :
        /\ end = Len(s) \/ s[Len(s)] = "\n"
        /\ s[at] = "@"
        /\ \A i \in 1..(at - 1) : s[i] \in Alphanumerics \cup {".", "_", "%", "+", "-"}
        /\ dot > at + 1 /\ s[dot] = "."
        /\ \A i \in (at + 1)..(dot - 1) : s[i] \in Alphanumerics \cup {".", "-"}
        /\ end >= dot + 2
        /\ \A i \in (dot + 1)..end : s[i] \in Letters

\* _register_built_in_rules: is_valid_email
is_valid_email(value) == Returned(BoolV(MatchesEmail(py_str(value))))

\* _register_built_in_rules: is_not_empty
is_not_empty(value) ==
    IF value = None THEN Returned(BoolV(FALSE))
    ELSE IF value.t = "str" THEN Returned(BoolV(Strip(value.s) # <<>>))
    ELSE IF value.t \in {"list", "dict"} THEN Returned(BoolV(py_len(value) > 0))
    ELSE Returned(BoolV(TRUE))

\* a caller's predicate that raises on some values: int(value) > 0
strict_int(value) ==
    IF py_int(value).exc # "none" THEN Raised(py_int(value).exc)
    ELSE Returned(BoolV(py_int(value).v.n > 0))

\* a caller's predicate that never fails
always_valid(value) == Returned(BoolV(TRUE))

\* validator_func(value), the function being named by validator_func
Apply(validator_func, value) ==
    CASE validator_func = "is_valid_url" -> is_valid_url(value)
      [] validator_func = "is_valid_port" -> is_valid_port(value)
      [] validator_func = "is_valid_email" -> is_valid_email(value)
      [] validator_func = "is_not_empty" -> is_not_empty(value)
      [] validator_func = "strict_int" -> strict_int(value)
      [] validator_func = "always_valid" -> always_valid(value)

\* ValidationRule(name, validator_func, error_message), and the attribute
\* `required` that validate looks for
ValidationRule(name, validator_func, error_message, required) ==
    [name |-> name, validator_func |-> validator_func,
     error_message |-> error_message, required |-> required]

\* faulty variant of ValidationRule.validate: the predicate's exception is let
\* through
rule_validate_raising(rule, value) == Apply(rule.validator_func, value)

\* ValidationRule.validate(value): the predicate's result, False when it raises
rule_validate(rule, value) ==
    IF Apply(rule.validator_func, value).exc # "none" THEN Returned(BoolV(FALSE))
    ELSE Apply(rule.validator_func, value)

R_url == <<"u","r","l">>
R_port == <<"p","o","r","t">>
R_email == <<"e","m","a","i","l">>
R_required == <<"r","e","q","u","i","r","e","d">>

\* the names of the built-in rules, in the order they are registered
BuiltInNames == <<R_url, R_port, R_email, R_required>>

\* ConfigValidator.built_in_rules after _register_built_in_rules
built_in_rules ==
    (R_url :> ValidationRule(R_url, "is_valid_url",
                  <<"m","u","s","t"," ","b","e"," ","a"," ","v","a","l","i","d"," ","U","R","L"," ","w","i","t","h"," ","s","c","h","e","m","e"," ","a","n","d"," ","n","e","t","l","o","c">>,
                  FALSE)) @@
    (R_port :> ValidationRule(R_port, "is_valid_port",
                  <<"m","u","s","t"," ","b","e"," ","a"," ","v","a","l","i","d"," ","p","o","r","t"," ","n","u","m","b","e","r"," ","(","1","-","6","5","5","3","5",")">>,
                  FALSE)) @@
    (R_email :> ValidationRule(R_email, "is_valid_email",
                  <<"m","u","s","t"," ","b","e"," ","a"," ","v","a","l","i","d"," ","e","m","a","i","l"," ","a","d","d","r","e","s","s">>,
                  FALSE)) @@
    (R_required :> ValidationRule(R_required, "is_not_empty",
                  <<"i","s"," ","r","e","q","u","i","r","e","d"," ","a","n","d"," ","c","a","n","n","o","t"," ","b","e"," ","e","m","p","t","y">>,
                  TRUE))

\* the position of key_path in self.rules, 0 when it is not a key
Position(reg, key_path) ==
    IF \E i \in 1..Len(reg) : reg[i].key_path = key_path
    THEN CHOOSE i \in 1..Len(reg) : reg[i].key_path = key_path
    ELSE 0

\* del self.rules[key_path]
WithoutEntry(reg, pos) == SubSeq(reg, 1, pos - 1) \o SubSeq(reg, pos + 1, Len(reg))

\* isinstance(rule, str)
IsName(rule) == "t" \in DOMAIN rule

\* add_rule once rule is a ValidationRule: the entry is created when missing
\* and the rule appended
AppendRule(reg, key_path, rule) ==
    [exc |-> "none", msg |-> <<>>,
     rules |-> IF Position(reg, key_path) = 0
               THEN Append(reg, [key_path |-> key_path, rules |-> <<rule>>])
               ELSE [reg EXCEPT ![Position(reg, key_path)].rules = Append(@, rule)]]

\* the ValueError of add_rule
UnknownBuiltIn(reg, rule) ==
    [exc |-> "ValueError",
     msg |-> <<"U","n","k","n","o","w","n"," ","b","u","i","l","t","-","i","n"," ","r","u","l","e"," ","'">> \o rule.s \o <<"'","."," ","A","v","a","i","l","a","b","l","e"," ","r","u","l","e","s",":"," ">>
             \o py_str(ListT([i \in 1..Len(BuiltInNames) |-> StrV(BuiltInNames[i])])),
     rules |-> reg]

\* faulty variant of add_rule: the entry is created before the name is looked up
add_rule_entry_first(reg, key_path, rule) ==
    LET made == IF Position(reg, key_path) = 0
                THEN Append(reg, [key_path |-> key_path, rules |-> <<>>])
                ELSE reg
    IN  IF IsName(rule)
        THEN IF rule.s \notin DOMAIN built_in_rules THEN UnknownBuiltIn(made, rule)
             ELSE AppendRule(made, key_path, built_in_rules[rule.s])
        ELSE AppendRule(made, key_path, rule)

\* ConfigValidator.add_rule(key_path, rule)
add_rule(reg, key_path, rule) ==
    IF IsName(rule)
    THEN IF rule.s \notin DOMAIN built_in_rules THEN UnknownBuiltIn(reg, rule)
         ELSE AppendRule(reg, key_path, built_in_rules[rule.s])
    ELSE AppendRule(reg, key_path, rule)

\* the rules of a list whose name is not rule_name
OtherRules(rls, rule_name) == SelectSeq(rls, LAMBDA rule : rule.name # rule_name.s)

\* faulty variant of remove_rule: an emptied list is left in the registry
remove_rule_leaving_empty(reg, key_path, rule_name) ==
    IF Position(reg, key_path) = 0 THEN reg
    ELSE IF rule_name = None THEN WithoutEntry(reg, Position(reg, key_path))
    ELSE [reg EXCEPT ![Position(reg, key_path)].rules = OtherRules(@, rule_name)]

\* ConfigValidator.remove_rule(key_path, rule_name)
remove_rule(reg, key_path, rule_name) ==
    IF Position(reg, key_path) = 0 THEN reg
    ELSE IF rule_name = None THEN WithoutEntry(reg, Position(reg, key_path))
    ELSE IF OtherRules(reg[Position(reg, key_path)].rules, rule_name) = <<>>
    THEN WithoutEntry(reg, Position(reg, key_path))
    ELSE [reg EXCEPT ![Position(reg, key_path)].rules = OtherRules(@, rule_name)]

MissingMessage(key_path) == key_path \o <<":"," ","R","e","q","u","i","r","e","d"," ","k","e","y"," ","i","s"," ","m","i","s","s","i","n","g">>

FailureMessage(key_path, rule, value) ==
    key_path \o <<":"," ">> \o rule.error_message \o <<" ","(","v","a","l","u","e",":"," ">> \o py_str(value) \o <<")">>

\* faulty variant of the errors for an absent key: one for each required rule
MissingErrorsPerRule(key_path, rls) ==
    [i \in 1..Len(SelectSeq(rls, LAMBDA r : r.required)) |-> MissingMessage(key_path)]

\* validate, the value being None: the errors for the key
MissingErrors(key_path, rls) ==
    IF SelectSeq(rls, LAMBDA r : r.required) # <<>>
    THEN <<MissingMessage(key_path)>>
    ELSE <<>>

\* validate has called rule.validate(value), which returned or raised r: the
\* call is recorded in ran, a failure in errors, an exception in exc
AfterRule(acc, key_path, rule, value, r) ==
    [errors |-> IF r.exc = "none" /\ ~r.v.b
                THEN Append(acc.errors, FailureMessage(key_path, rule, value))
                ELSE acc.errors,
     ran |-> Append(acc.ran, <<key_path, rule.name>>),
     exc |-> r.exc]

\* faulty variant of the loop over the rules: it stops at the first failure
RECURSIVE ApplyRulesUntilFailure(_, _, _, _)
ApplyRulesUntilFailure(acc, key_path, rls, value) ==
    IF rls = <<>> \/ acc.exc # "none" \/ acc.errors # <<>> THEN acc
    ELSE ApplyRulesUntilFailure(AfterRule(acc, key_path, Head(rls), value,
                                          rule_validate(Head(rls), value)),
                                key_path, Tail(rls), value)

\* validate: the loop over the rules of one key path, the value being present
RECURSIVE ApplyRules(_, _, _, _)
ApplyRules(acc, key_path, rls, value) ==
    IF rls = <<>> \/ acc.exc # "none" THEN acc
    ELSE ApplyRules(AfterRule(acc, key_path, Head(rls), value,
                              rule_validate(Head(rls), value)),
                    key_path, Tail(rls), value)

\* validate: one key path of the registry
ValidateEntry(acc, h, key_path, rls, value) ==
    IF value = None
    THEN [acc EXCEPT !.errors = @ \o MissingErrors(key_path, rls)]
    ELSE ApplyRules(acc, key_path, rls, Val(h, value))

\* validate: the loop over self.rules.items()
RECURSIVE ValidateLoop(_, _, _, _)
ValidateLoop(acc, reg, h, data) ==
    IF reg = <<>> \/ acc.exc # "none" THEN acc
    ELSE ValidateLoop(ValidateEntry(acc, h, Head(reg).key_path, Head(reg).rules,
                                    get_nested_value(h, data,
                                                     Head(reg).key_path, None)),
                      Tail(reg), h, data)

ErrorList(errors) == ListT([i \in 1..Len(errors) |-> StrV(errors[i])])

\* faulty variant of the end of validate: the exception carries the first error
RaisedOrReturnedFirst(acc, raise_on_error) ==
    IF acc.exc # "none"
    THEN [exc |-> acc.exc, ret |-> None, errors |-> None, ran |-> acc.ran]
    ELSE IF raise_on_error /\ acc.errors # <<>>
    THEN [exc |-> "ConfigValidationError", ret |-> None,
          errors |-> ErrorList(<<acc.errors[1]>>), ran |-> acc.ran]
    ELSE [exc |-> "none", ret |-> ErrorList(acc.errors), errors |-> None,
          ran |-> acc.ran]

\* validate: the errors are raised in a ConfigValidationError or returned
RaisedOrReturned(acc, raise_on_error) ==
    IF acc.exc # "none"
    THEN [exc |-> acc.exc, ret |-> None, errors |-> None, ran |-> acc.ran]
    ELSE IF raise_on_error /\ acc.errors # <<>>
    THEN [exc |-> "ConfigValidationError", ret |-> None,
          errors |-> ErrorList(acc.errors), ran |-> acc.ran]
    ELSE [exc |-> "none", ret |-> ErrorList(acc.errors), errors |-> None,
          ran |-> acc.ran]

\* ConfigValidator.validate(config_data, raise_on_error): what is returned
\* (ret) or raised (exc, with the errors it carries), and the calls of
\* rule.validate made (ran)
validate(reg, h, data, raise_on_error) ==
    RaisedOrReturned(ValidateLoop([errors |-> <<>>, ran |-> <<>>, exc |-> "none"],
                                  reg, h, data),
                     raise_on_error)

-----------------------------------------------------------------------------
(* A ConfigValidator used on its own: rules are added and removed, and trees *)
(* are validated                                                            *)

R_unknown == <<"n","o","p","e">>

\* a caller's rule whose predicate raises on values that are not numbers
Rule_strict_int ==
    ValidationRule(<<"s","t","r","i","c","t","_","i","n","t">>, "strict_int", <<"m","u","s","t"," ","b","e"," ","a"," ","p","o","s","i","t","i","v","e"," ","i","n","t","e","g","e","r">>, FALSE)

RulePaths == {P_ab, P_b}
RuleArguments ==
    {StrV(R_port), StrV(R_required), StrV(R_url), StrV(R_unknown), Rule_strict_int}
RuleNames == {None, StrV(R_port)}

\* the trees given to validate
V_large == DictT((K_a :> DictT((K_b :> IntV(99999)))))
V_text == DictT((K_a :> DictT((K_b :> StrV(<<"x">>)))) @@ (K_b :> StrV(<<>>)))
V_null == DictT((K_a :> IntV(5)) @@ (K_b :> None))
V_valid == DictT((K_a :> DictT((K_b :> IntV(80)))) @@ (K_b :> StrV(<<"h","t","t","p",":","/","/","h">>)))
ValidatedTrees == {V_large, V_text, V_null, V_valid}

\* ConfigValidator(): no rule registered
InitValidate ==
    /\ rules = <<>>
    /\ last = NoCall
    /\ steps = 0
    /\ m_in = <<>>
    /\ m_out = None
    /\ environ = EmptyMap
    /\ files = EmptyMap
    /\ heap = <<>>
    /\ config_data = None
    /\ loaded_files = <<>>
    /\ resolved_cache = None
    /\ current_env = None
    /\ env_overrides_cache = None

\* a call that leaves the registry as reg
RegistryCall(op, args, reg, exc, msg) ==
    /\ steps < MaxRuleSteps
    /\ rules' = reg
    /\ last' = [op |-> op, args |-> args, ret |-> None, exc |-> exc, msg |-> msg]
    /\ steps' = steps + 1
    /\ UNCHANGED <<heap, config_data, loaded_files, resolved_cache, current_env,
                   env_overrides_cache, environ, files, m_in, m_out>>

AddRule ==
    \E key_path \in RulePaths, rule \in RuleArguments :
        LET r == add_rule(rules, key_path, rule)
        IN  RegistryCall("add_rule", <<key_path, rule>>, r.rules, r.exc, r.msg)

RemoveRule ==
    \E key_path \in RulePaths, rule_name \in RuleNames :
        RegistryCall("remove_rule", <<key_path, rule_name>>,
                     remove_rule(rules, key_path, rule_name), "none", <<>>)

\* validate changes nothing in the validator, so that it is not counted in steps
Validate ==
    \E tree \in ValidatedTrees, raise_on_error \in BOOLEAN :
        LET b == Build(<<>>, tree)
            r == validate(rules, b.h, b.v, raise_on_error)
        IN  /\ last' = [op |-> "validate", args |-> <<tree, raise_on_error>>,
                        ret |-> r.ret, exc |-> r.exc, errors |-> r.errors,
                        ran |-> r.ran]
            /\ UNCHANGED <<rules, steps, heap, config_data, loaded_files,
                           resolved_cache, current_env, env_overrides_cache,
                           environ, files, m_in, m_out>>

NextValidate ==
    \/ AddRule
    \/ RemoveRule
    \/ Validate

SpecValidate == InitValidate /\ [][NextValidate]_vars

-----------------------------------------------------------------------------
(* The built-in rule 'port' applied to one value                             *)

PortChars == {"0", "1", "6", "-", " ", "x"}

\* longer texts: the ends of the range, signs, padding, underscores, a fraction
PortWords ==
    {<<"6","5","5","3","5">>, <<"6","5","5","3","6">>, <<"6","5","5","3","4">>, <<"4","4","3">>, <<"+","8","0">>, <<" ","8","0","8","0"," ">>, <<"-","6","5","5","3","5">>, <<"8","_","0">>,
     <<"8","0",".","5">>, <<"n","o","t","-","a","-","p","o","r","t">>, <<"9","9","9","9","9">>, <<"0","0","6","5","5","3","5">>}

PortStrings == UNION {[1..n -> PortChars] : n \in 0..MaxStrLen} \cup PortWords

\* the values given to the rule: integers around the ends of the range,
\* booleans, floats, texts and values int() does not accept
PortValues ==
    {IntV(n) : n \in {-65535, -1, 0, 1, 2, 80, 443, 8080, 65534, 65535, 65536, 99999}}
    \cup {StrV(w) : w \in PortStrings}
    \cup {BoolV(TRUE), BoolV(FALSE), None, ListT(<<IntV(80)>>), ListT(<<>>),
          DictT(EmptyMap), DictT((K_a :> IntV(80)))}
    \cup {NormFloat(805, -1), NormFloat(5, -1), NormFloat(-5, -1), NormFloat(8, 1),
          NormFloat(655359, -1), NormFloat(65536, 0), NormFloat(-80, 0),
          SpecialFloat("inf"), SpecialFloat("-inf"), SpecialFloat("nan")}

InitPort ==
    /\ m_in \in PortValues
    /\ m_out = None
    /\ last = NoCall
    /\ steps = 0
    /\ rules = <<>>
    /\ heap = <<>>
    /\ config_data = None
    /\ loaded_files = <<>>
    /\ resolved_cache = None
    /\ current_env = None
    /\ env_overrides_cache = None
    /\ environ = EmptyMap
    /\ files = EmptyMap

\* ConfigValidator().built_in_rules['port'].validate(value)
PortRuleValidate ==
    /\ steps = 0
    /\ LET r == rule_validate(built_in_rules[R_port], m_in)
       IN  /\ m_out' = r.v
           /\ last' = [op |-> "port_rule.validate", args |-> <<m_in>>,
                       ret |-> r.v, exc |-> r.exc]
    /\ steps' = 1
    /\ UNCHANGED <<m_in, heap, config_data, loaded_files, resolved_cache,
                   current_env, env_overrides_cache, environ, files, rules>>

NextPort == PortRuleValidate

SpecPort == InitPort /\ [][NextPort]_vars

-----------------------------------------------------------------------------
(* load_file and reload on a file system that changes between the calls: a   *)
(* file is removed, or rewritten with other content                          *)

\* what a file is rewritten with: text no codec decodes, a list, a dict
WrittenData == {Malformed, ListT(<<IntV(1)>>), DictT((K_b :> IntV(7)))}
WrittenPaths == {F_json, F_yml}

\* the call `op(args)` took the ConfigManager to r; the raw tree and the source
\* list it was made on are kept with the call
StoreCall(op, args, r) ==
    /\ steps < MaxLoadSteps
    /\ LET c == Compact(r.h, <<r.config_data, r.resolved_cache,
                               r.env_overrides_cache, r.ret>>)
       IN  /\ heap' = c.h
           /\ config_data' = RenV(c.order, r.config_data)
           /\ resolved_cache' = RenV(c.order, r.resolved_cache)
           /\ env_overrides_cache' = RenV(c.order, r.env_overrides_cache)
           /\ last' = [op |-> op, args |-> args, ret |-> RenV(c.order, r.ret),
                       exc |-> r.exc,
                       before |-> [tree |-> Val(heap, config_data),
                                   sources |-> loaded_files]]
    /\ loaded_files' = r.loaded_files
    /\ current_env' = r.current_env
    /\ steps' = steps + 1
    /\ UNCHANGED <<environ, files, m_in, m_out, rules>>

\* the file system changed to fs
FileChange(op, args, fs) ==
    /\ steps < MaxLoadSteps
    /\ files' = fs
    /\ last' = [op |-> op, args |-> args, ret |-> None, exc |-> "none"]
    /\ steps' = steps + 1
    /\ UNCHANGED <<heap, config_data, loaded_files, resolved_cache, current_env,
                   env_overrides_cache, environ, m_in, m_out, rules>>

InitLoad ==
    /\ environ = EmptyMap
    /\ files = InitialFiles
    /\ LET s == init_config_manager(environ, files)
       IN  /\ heap = s.h
           /\ config_data = s.config_data
           /\ loaded_files = s.loaded_files
           /\ resolved_cache = s.resolved_cache
           /\ current_env = s.current_env
           /\ env_overrides_cache = s.env_overrides_cache
    /\ last = NoCall
    /\ steps = 0
    /\ rules = <<>>
    /\ m_in = <<>>
    /\ m_out = None

StoreLoadFile ==
    \E f \in FilePaths : StoreCall("load_file", <<f>>, load_file(Self, f))

StoreReload == StoreCall("reload", <<>>, reload(Self))

StoreSet == StoreCall("set", <<P_b, IntV(8)>>, set(Self, P_b, IntV(8)))

StoreLoadDict ==
    LET b == Build(heap, T_null)
    IN  StoreCall("load_dict", <<T_null>>, load_dict([Self EXCEPT !.h = b.h], b.v))

StoreGetResolvedConfig ==
    StoreCall("get_resolved_config", <<TRUE>>, get_resolved_config(Self, TRUE))

\* Path(...).unlink() by the process
Unlink ==
    \E f \in WrittenPaths :
        /\ files[f].exists
        /\ FileChange("unlink", <<f>>,
                      [files EXCEPT ![f] = [exists |-> FALSE, data |-> None]])

\* the process rewrites a file
WriteFile ==
    \E f \in WrittenPaths, d \in WrittenData :
        FileChange("write", <<f, d>>,
                   [files EXCEPT ![f] = [exists |-> TRUE, data |-> d]])

NextLoad ==
    \/ StoreLoadFile
    \/ StoreReload
    \/ StoreSet
    \/ StoreLoadDict
    \/ StoreGetResolvedConfig
    \/ Unlink
    \/ WriteFile

SpecLoad == InitLoad /\ [][NextLoad]_vars

-----------------------------------------------------------------------------
(* A ConfigManager read and written by path: get, set, has, delete, update   *)
(* and the dictionary-style access, on trees whose paths run through dicts,  *)
(* scalars, strings, lists and nulls                                         *)

P_ba == K_b \o <<Sep>> \o K_a
P_dev == Development

\* a.b runs through a dict, b.a through a scalar; a.b holds null
A_nested == DictT((K_a :> DictT((K_a :> IntV(1)) @@ (K_b :> None))) @@ (K_b :> IntV(5)))
\* a.b runs through a string, b.a through a list
A_leaves == DictT((K_a :> StrV(<<"b">>)) @@ (K_b :> ListT(<<IntV(1)>>)))
\* a.b runs through null; the development block holds a.b and a null b
A_block == DictT((K_a :> None) @@
                 (Development :> DictT((K_a :> DictT((K_b :> IntV(7)))) @@ (K_b :> None))))
\* the key of the development environment holds a scalar, a list, null
A_scalar == DictT((Development :> IntV(5)) @@ (K_a :> DictT((K_b :> IntV(1)))))
A_list == DictT((Development :> ListT(<<IntV(1)>>)) @@ (K_b :> IntV(2)))
A_null == DictT((Development :> None) @@ (K_a :> IntV(3)))

AccessTrees == {A_nested, A_leaves, A_block, A_scalar, A_list, A_null}
AccessPaths == {P_a, P_b, P_ab, P_ba, P_dev}
AccessValues == {IntV(8), None}
AccessUpdates ==
    {<<<<P_ab, IntV(8)>>, <<P_b, IntV(9)>>>>,
     <<<<P_ba, IntV(8)>>, <<P_a, None>>>>,
     <<<<P_a, IntV(8)>>, <<P_ab, IntV(9)>>>>}
AccessEnvirons == {EmptyMap, (env_var_name :> <<"p","r","o","d">>)}

\* the call `op(args)` took the ConfigManager to r
AccessCall(op, args, r) ==
    /\ steps < MaxAccessSteps
    /\ LET c == Compact(r.h, <<r.config_data, r.resolved_cache,
                               r.env_overrides_cache, r.ret>>)
       IN  /\ heap' = c.h
           /\ config_data' = RenV(c.order, r.config_data)
           /\ resolved_cache' = RenV(c.order, r.resolved_cache)
           /\ env_overrides_cache' = RenV(c.order, r.env_overrides_cache)
           /\ last' = [op |-> op, args |-> args, ret |-> RenV(c.order, r.ret),
                       exc |-> r.exc,
                       before |-> [tree |-> Val(heap, config_data),
                                   sources |-> loaded_files]]
    /\ loaded_files' = r.loaded_files
    /\ current_env' = r.current_env
    /\ steps' = steps + 1
    /\ UNCHANGED <<environ, files, m_in, m_out, rules>>

InitAccess ==
    /\ environ \in AccessEnvirons
    /\ files = EmptyMap
    /\ LET s == init_config_manager(environ, files)
       IN  /\ heap = s.h
           /\ config_data = s.config_data
           /\ loaded_files = s.loaded_files
           /\ resolved_cache = s.resolved_cache
           /\ current_env = s.current_env
           /\ env_overrides_cache = s.env_overrides_cache
    /\ last = NoCall
    /\ steps = 0
    /\ rules = <<>>
    /\ m_in = <<>>
    /\ m_out = None

AccessLoadDict ==
    \E d \in AccessTrees :
        LET b == Build(heap, d)
        IN  AccessCall("load_dict", <<d>>, load_dict([Self EXCEPT !.h = b.h], b.v))

AccessSet ==
    \E p \in AccessPaths, v \in AccessValues :
        AccessCall("set", <<p, v>>, set(Self, p, v))

AccessUpdate ==
    \E u \in AccessUpdates : AccessCall("update", <<u>>, update(Self, u))

AccessDelete ==
    \E p \in AccessPaths : AccessCall("delete", <<p>>, delete(Self, p))

GetItem ==
    \E p \in AccessPaths : AccessCall("__getitem__", <<p>>, __getitem__(Self, p))

SetItem ==
    \E p \in AccessPaths, v \in AccessValues :
        AccessCall("__setitem__", <<p, v>>, __setitem__(Self, p, v))

DelItem ==
    \E p \in AccessPaths : AccessCall("__delitem__", <<p>>, __delitem__(Self, p))

ContainsKey ==
    \E p \in AccessPaths : AccessCall("__contains__", <<p>>, __contains__(Self, p))

AccessGetResolvedConfig ==
    \E use_cache \in BOOLEAN :
        AccessCall("get_resolved_config", <<use_cache>>,
                   get_resolved_config(Self, use_cache))

NextAccess ==
    \/ AccessLoadDict
    \/ AccessSet
    \/ AccessUpdate
    \/ AccessDelete
    \/ GetItem
    \/ SetItem
    \/ DelItem
    \/ ContainsKey
    \/ AccessGetResolvedConfig

SpecAccess == InitAccess /\ [][NextAccess]_vars

-----------------------------------------------------------------------------
(* The nested-map functions of utils.py applied on their own to a tree and a *)
(* dot-path: keys may be empty, values are scalars, strings, lists, nulls    *)
(* and dicts, empty or not                                                   *)

K_empty == <<>>
K_dotted == K_a \o <<Sep>> \o K_b

NestedLeaves == {IntV(1), None, StrV(<<"b">>), ListT(<<IntV(1)>>)}
NestedInner ==
    {DictT(m) : m \in UNION {[ks -> {IntV(2), DictT(EmptyMap), DictT(K_b :> IntV(3))}] :
                                ks \in SUBSET {K_empty, K_b}}}
NestedTrees ==
    {DictT(m) : m \in UNION {[ks -> NestedLeaves \cup NestedInner] :
                                ks \in SUBSET {K_empty, K_a}}}
    \cup {DictT((K_dotted :> IntV(1)) @@ (K_a :> DictT(K_b :> IntV(2)))),
          DictT(K_a :> DictT(K_dotted :> IntV(1)))}

\* a, a.b, a..b, the empty path, .b, a.b.b, b
NestedPaths ==
    {K_a, P_ab, K_a \o <<Sep, Sep>> \o K_b, <<>>, <<Sep>> \o K_b,
     P_ab \o <<Sep>> \o K_b, K_b}
NestedValues == {IntV(9), None}
NestedDefaults == {None, IntV(0)}

\* the keys of a tree, at every depth
RECURSIVE AllKeys(_)
AllKeys(tree) ==
    IF tree.t # "dict" THEN {}
    ELSE DOMAIN tree.m \cup UNION {AllKeys(tree.m[k]) : k \in DOMAIN tree.m}

\* the caller holds a dict and a path
InitNested ==
    /\ \E tree \in NestedTrees, key_path \in NestedPaths :
         LET b == Build(<<>>, tree)
         IN  /\ heap = b.h
             /\ m_in = [tree |-> tree, data |-> b.v, key_path |-> key_path]
    /\ m_out = None
    /\ last = NoCall
    /\ steps = 0
    /\ rules = <<>>
    /\ config_data = None
    /\ loaded_files = <<>>
    /\ resolved_cache = None
    /\ current_env = None
    /\ env_overrides_cache = None
    /\ environ = EmptyMap
    /\ files = EmptyMap

\* a function of utils.py was applied: the heap and the result afterwards
Applied(op, args, h, result) ==
    /\ heap' = h
    /\ m_out' = result
    /\ last' = [op |-> op, args |-> args, ret |-> None, exc |-> "none"]
    /\ steps' = steps + 1
    /\ UNCHANGED <<m_in, config_data, loaded_files, resolved_cache, current_env,
                   env_overrides_cache, environ, files, rules>>

\* flat = flatten_dict(data), the dicts yielding their keys in some order
FlattenDict ==
    /\ steps = 0
    /\ \E order \in Arrangements(AllKeys(m_in.tree)) :
         Applied("flatten_dict", <<order>>, heap,
                 flatten_dict(heap, m_in.data, <<>>, order))

\* unflatten_dict(flat)
UnflattenDict ==
    /\ last.op = "flatten_dict"
    /\ LET r == unflatten_dict(heap, m_out)
       IN  Applied("unflatten_dict", <<m_out>>, r.h, r.v)

GetNestedValue ==
    /\ steps = 0
    /\ \E default \in NestedDefaults :
         Applied("get_nested_value", <<default>>, heap,
                 get_nested_value(heap, m_in.data, m_in.key_path, default))

SetNestedValue ==
    /\ steps = 0
    /\ \E value \in NestedValues :
         Applied("set_nested_value", <<value>>,
                 set_nested_value(heap, m_in.data, m_in.key_path, value), None)

HasNestedKey ==
    /\ steps = 0
    /\ Applied("has_nested_key", <<>>, heap,
               BoolV(has_nested_key(heap, m_in.data, m_in.key_path)))

NextNested ==
    \/ FlattenDict
    \/ UnflattenDict
    \/ GetNestedValue
    \/ SetNestedValue
    \/ HasNestedKey

SpecNested == InitNested /\ [][NextNested]_vars

-----------------------------------------------------------------------------
(* A ConfigManager with its validator and its environment manager: the       *)
(* calls that read it, between the calls that change it                      *)

\* validator.validate(resolved_config, raise_on_error), resolved_config being
\* the value that g returned
ValidatedBy(g, v) == [g EXCEPT !.ret = v.ret, !.exc = v.exc]
ValidateResolved(g, reg, raise_on_error) ==
    ValidatedBy(g, validate(reg, g.h, g.ret, raise_on_error))

\* faulty variant of ConfigManager.validate: the raw tree is given to the
\* validator
CM_validate_raw(self, reg, raise_on_error) ==
    ValidateResolved([self EXCEPT !.ret = self.config_data], reg, raise_on_error)

\* ConfigManager.validate(raise_on_error), reg being self.validator.rules
CM_validate(self, reg, raise_on_error) ==
    ValidateResolved(get_resolved_config(self, TRUE), reg, raise_on_error)

\* dict(d), d being the value that g returned
Copied(g) ==
    LET c == ShallowCopy(g.h, g.ret) IN [g EXCEPT !.h = c.h, !.ret = c.v]

\* the tree that to_dict, keys and items read
ConfigRead(self, resolved) ==
    IF resolved THEN get_resolved_config(self, TRUE)
    ELSE [self EXCEPT !.ret = self.config_data]

\* to_dict(resolved): a new dict holding the top-level values of the tree
to_dict(self, resolved) == Copied(ConfigRead(self, resolved))

\* the value v as a new object of the heap of g, returned
Listed(g, v) == LET b == Build(g.h, v) IN [g EXCEPT !.h = b.h, !.ret = b.v]

\* list(flat_config.keys())
KeyList(flat_config) == ListT([i \in 1..Len(flat_config) |-> StrV(flat_config[i][1])])

\* list(flatten_dict(config).keys()), config being the value that g returned
FlatKeys(g, order) == Listed(g, KeyList(flatten_dict(g.h, g.ret, <<>>, order)))

\* ConfigManager.keys(resolved)
CM_keys(self, resolved, order) == FlatKeys(ConfigRead(self, resolved), order)

\* _iter_items(data, prefix) of items: the pairs it yields
RECURSIVE IterItems(_, _, _, _, _)
IterItems(h, data, ks, prefix, order) ==
    IF ks = <<>> THEN <<>>
    ELSE LET key == Head(ks)
             value == h[data.id].m[key]
             key_path == IF prefix # <<>> THEN prefix \o <<Sep>> \o key ELSE key
         IN  (IF IsDict(h, value)
              THEN IterItems(h, value, KeysInOrder(h, value, order), key_path, order)
              ELSE <<ListT(<<StrV(key_path), Val(h, value)>>)>>)
             \o IterItems(h, data, Tail(ks), prefix, order)

\* the pairs of config in a new list, config being the value that g returned
ItemList(g, order) ==
    Listed(g, ListT(IterItems(g.h, g.ret, KeysInOrder(g.h, g.ret, order), <<>>, order)))

\* list(ConfigManager.items(resolved))
CM_items(self, resolved, order) == ItemList(ConfigRead(self, resolved), order)


P_prod_ab == Production \o <<Sep>> \o P_ab

\* the trees loaded: a port with a value for production that is out of range,
\* and one with a valid value for development and a null in that block
S_prod == DictT((K_a :> DictT((K_b :> IntV(80)))) @@
                (Production :> DictT((K_a :> DictT((K_b :> IntV(99999)))))))
S_dev == DictT((K_a :> DictT((K_b :> IntV(99999)))) @@ (K_b :> ListT(<<IntV(1)>>)) @@
               (Development :> DictT((K_a :> DictT((K_b :> IntV(443)))) @@ (K_b :> None))))
SessionTrees == {S_prod, S_dev}
SessionEnvirons == {EmptyMap, (env_var_name :> <<"p","r","o","d">>)}
SessionNames == {<<"p","r","o","d">>, <<"d","e","v">>}
SessionPaths == {P_ab, P_b}
SessionSets == {<<P_prod_ab, IntV(22)>>, <<P_b, None>>}
SessionDeletes == {P_prod_ab, P_ab}
SessionRules == {<<P_ab, StrV(R_port)>>, <<P_b, StrV(R_required)>>}
SessionPutenvs == {<<env_var_name, <<"s","t","a","g","i","n","g">>>>}

\* what a call is made on: the raw tree, the source list, the rules and the
\* environment the manager holds
Before ==
    [tree |-> Val(heap, config_data), sources |-> loaded_files, rules |-> rules,
     env |-> current_env]

\* the call `op(args)` took the ConfigManager to r and its validator's rules
\* to reg
SessionStep(op, args, r, reg) ==
    /\ LET c == Compact(r.h, <<r.config_data, r.resolved_cache,
                               r.env_overrides_cache, r.ret>>)
       IN  /\ heap' = c.h
           /\ config_data' = RenV(c.order, r.config_data)
           /\ resolved_cache' = RenV(c.order, r.resolved_cache)
           /\ env_overrides_cache' = RenV(c.order, r.env_overrides_cache)
           /\ last' = [op |-> op, args |-> args, ret |-> RenV(c.order, r.ret),
                       exc |-> r.exc, before |-> Before]
    /\ loaded_files' = r.loaded_files
    /\ current_env' = r.current_env
    /\ rules' = reg
    /\ UNCHANGED <<environ, files, m_in, m_out>>

\* a call that changes the store, its rules or its environment
SessionCall(op, args, r, reg) ==
    /\ steps < MaxSessionSteps
    /\ steps' = steps + 1
    /\ SessionStep(op, args, r, reg)

\* a call that reads the store
SessionRead(op, args, r) ==
    /\ UNCHANGED steps
    /\ SessionStep(op, args, r, rules)

InitSession ==
    /\ environ \in SessionEnvirons
    /\ files = EmptyMap
    /\ LET s == init_config_manager(environ, files)
       IN  /\ heap = s.h
           /\ config_data = s.config_data
           /\ loaded_files = s.loaded_files
           /\ resolved_cache = s.resolved_cache
           /\ current_env = s.current_env
           /\ env_overrides_cache = s.env_overrides_cache
    /\ last = NoCall
    /\ steps = 0
    /\ rules = <<>>
    /\ m_in = <<>>
    /\ m_out = None

SessionLoadDict ==
    \E d \in SessionTrees :
        LET b == Build(heap, d)
        IN  SessionCall("load_dict", <<d>>, load_dict([Self EXCEPT !.h = b.h], b.v),
                        rules)

SessionSet ==
    \E a \in SessionSets :
        SessionCall("set", a, set(Self, a[1], a[2]), rules)

SessionDelete ==
    \E p \in SessionDeletes : SessionCall("delete", <<p>>, delete(Self, p), rules)

SessionClear == SessionCall("clear", <<>>, clear(Self), rules)

\* config.set_environment(environment)
SessionSetEnvironment ==
    \E e \in SessionNames :
        SessionCall("set_environment", <<e>>, set_environment(Self, e), rules)

\* config.env_manager.set_environment(environment)
ManagerSetDirectly ==
    \E e \in SessionNames :
        SessionCall("env_manager.set_environment", <<e>>,
                    EM_set_environment(Self, e), rules)

\* config.add_validation_rule(key_path, rule)
AddValidationRule ==
    \E a \in SessionRules :
        SessionCall("add_validation_rule", a, Self, add_rule(rules, a[1], a[2]).rules)

\* config.remove_validation_rule(key_path)
RemoveValidationRule ==
    \E p \in SessionPaths :
        SessionCall("remove_validation_rule", <<p>>, Self, remove_rule(rules, p, None))

SessionPutenv ==
    \E p \in SessionPutenvs :
        /\ steps < MaxSessionSteps
        /\ environ' = SetKey(environ, p[1], p[2])
        /\ last' = [op |-> "putenv", args |-> p, ret |-> None, exc |-> "none",
                    before |-> Before]
        /\ steps' = steps + 1
        /\ UNCHANGED <<heap, config_data, loaded_files, resolved_cache, current_env,
                       env_overrides_cache, files, m_in, m_out, rules>>

\* config.env_manager.current_environment
ReadEnvironment ==
    SessionRead("current_environment", <<>>, EM_current_environment(Self))

SessionGet ==
    \E p \in SessionPaths, d \in GetDefaults :
        SessionRead("get", <<p, d>>, get(Self, p, d))

SessionHas == \E p \in SessionPaths : SessionRead("has", <<p>>, has(Self, p))

SessionGetResolvedConfig ==
    \E use_cache \in BOOLEAN :
        SessionRead("get_resolved_config", <<use_cache>>,
                    get_resolved_config(Self, use_cache))

SessionValidate ==
    \E raise_on_error \in BOOLEAN :
        SessionRead("validate", <<raise_on_error>>,
                    CM_validate(Self, rules, raise_on_error))

SessionToDict ==
    \E resolved \in BOOLEAN :
        SessionRead("to_dict", <<resolved>>, to_dict(Self, resolved))

\* the order in which the dicts yield their keys is the one of KeySeq
SessionKeys ==
    \E resolved \in BOOLEAN :
        SessionRead("keys", <<resolved>>,
                    CM_keys(Self, resolved, KeySeq(AllKeys(Val(heap, config_data)))))

SessionItems ==
    \E resolved \in BOOLEAN :
        SessionRead("items", <<resolved>>,
                    CM_items(Self, resolved, KeySeq(AllKeys(Val(heap, config_data)))))

NextStore ==
    \/ SessionLoadDict
    \/ SessionSet
    \/ SessionDelete
    \/ SessionClear
    \/ SessionSetEnvironment
    \/ AddValidationRule
    \/ RemoveValidationRule
    \/ SessionPutenv
    \/ ReadEnvironment
    \/ SessionGet
    \/ SessionHas
    \/ SessionGetResolvedConfig
    \/ SessionValidate
    \/ SessionToDict
    \/ SessionKeys
    \/ SessionItems

\* the calls made on the ConfigManager itself
SpecStore == InitSession /\ [][NextStore]_vars

NextSession ==
    \/ SessionLoadDict
    \/ SessionSet
    \/ SessionDelete
    \/ SessionClear
    \/ SessionSetEnvironment
    \/ AddValidationRule
    \/ RemoveValidationRule
    \/ SessionPutenv
    \/ ReadEnvironment
    \/ SessionGet
    \/ SessionHas
    \/ SessionGetResolvedConfig
    \/ SessionValidate
    \/ SessionToDict
    \/ SessionKeys
    \/ SessionItems
    \/ ManagerSetDirectly

\* the same with config.env_manager used directly
SpecSession == InitSession /\ [][NextSession]_vars

-----------------------------------------------------------------------------
(* A caller that keeps the tree get_resolved_config returned: m_out is the  *)
(* reference it holds, m_in the tree it was given                           *)

S_plain == DictT((K_a :> DictT((K_b :> IntV(80)))))
SnapshotTrees == {S_plain, S_prod}
SnapshotEnvirons ==
    {EmptyMap, (env_var_name :> <<"p","r","o","d">>), (N_config_a_b :> <<"5">>)}
SnapshotSets == {<<P_ab, IntV(22)>>, <<P_b, IntV(1)>>}
SnapshotPaths == {P_a, P_ab, P_b}
SnapshotValues == {IntV(1)}

\* what get and has report of the paths
Reports(self) ==
    [p \in SnapshotPaths |->
        LET g == get(self, p, None)
        IN  <<Val(g.h, g.ret), has(self, p).ret.b>>]

\* the call `op(args)` took the ConfigManager to r, the caller holding
\* `held`, which it was given as `given`
SnapshotStep(op, args, r, held, given) ==
    /\ LET c == Compact(r.h, <<r.config_data, r.resolved_cache,
                               r.env_overrides_cache, r.ret, held>>)
       IN  /\ heap' = c.h
           /\ config_data' = RenV(c.order, r.config_data)
           /\ resolved_cache' = RenV(c.order, r.resolved_cache)
           /\ env_overrides_cache' = RenV(c.order, r.env_overrides_cache)
           /\ m_out' = RenV(c.order, held)
           /\ last' = [op |-> op, args |-> args, ret |-> RenV(c.order, r.ret),
                       exc |-> r.exc, before |-> Before]
    /\ m_in' = given
    /\ loaded_files' = r.loaded_files
    /\ current_env' = r.current_env
    /\ UNCHANGED <<environ, files, rules>>

\* a call that changes the store
SnapshotCall(op, args, r) ==
    /\ steps < MaxSnapshotSteps
    /\ steps' = steps + 1
    /\ SnapshotStep(op, args, r, m_out, m_in)

InitSnapshot ==
    /\ environ \in SnapshotEnvirons
    /\ files = EmptyMap
    /\ LET s == init_config_manager(environ, files)
       IN  /\ heap = s.h
           /\ config_data = s.config_data
           /\ loaded_files = s.loaded_files
           /\ resolved_cache = s.resolved_cache
           /\ current_env = s.current_env
           /\ env_overrides_cache = s.env_overrides_cache
    /\ last = NoCall
    /\ steps = 0
    /\ rules = <<>>
    /\ m_in = <<>>
    /\ m_out = None

\* snapshot = config.get_resolved_config(use_cache)
TakeSnapshot ==
    \E use_cache \in BOOLEAN :
        LET r == get_resolved_config(Self, use_cache)
        IN  /\ UNCHANGED steps
            /\ SnapshotStep("get_resolved_config", <<use_cache>>, r, r.ret,
                            <<Val(r.h, r.ret)>>)

SnapshotLoadDict ==
    \E d \in SnapshotTrees :
        LET b == Build(heap, d)
        IN  SnapshotCall("load_dict", <<d>>, load_dict([Self EXCEPT !.h = b.h], b.v))

SnapshotSet ==
    \E a \in SnapshotSets : SnapshotCall("set", a, set(Self, a[1], a[2]))

SnapshotDelete == SnapshotCall("delete", <<P_ab>>, delete(Self, P_ab))

SnapshotUpdate ==
    \E a \in SnapshotSets : SnapshotCall("update", <<a>>, update(Self, <<a>>))

SnapshotApplyEnvOverrides ==
    \E o \in Orders(environ, Prefix_config) :
        SnapshotCall("apply_env_overrides", <<Prefix_config>>,
                     apply_env_overrides(Self, o, Prefix_config))

\* snapshot[key] = value
StoreInSnapshot ==
    \E key \in {K_a, K_b}, value \in SnapshotValues :
        /\ m_out # None
        /\ LET h == [heap EXCEPT ![m_out.id].m = SetKey(@, key, value)]
           IN  /\ steps < MaxSnapshotSteps
               /\ steps' = steps + 1
               /\ SnapshotStep("snapshot[key] = value",
                               <<key, value, Reports(Self)>>,
                               [Self EXCEPT !.h = h], m_out, <<Val(h, m_out)>>)

\* snapshot['a'][key] = value
StoreInNested ==
    \E key \in {K_b}, value \in SnapshotValues :
        /\ m_out # None
        /\ K_a \in DOMAIN heap[m_out.id].m
        /\ IsDict(heap, heap[m_out.id].m[K_a])
        /\ LET h == [heap EXCEPT ![heap[m_out.id].m[K_a].id].m = SetKey(@, key, value)]
           IN  /\ steps < MaxSnapshotSteps
               /\ steps' = steps + 1
               /\ SnapshotStep("snapshot[key] = value",
                               <<key, value, Reports(Self)>>,
                               [Self EXCEPT !.h = h], m_out, <<Val(h, m_out)>>)

NextSnapshot ==
    \/ TakeSnapshot
    \/ SnapshotLoadDict
    \/ SnapshotSet
    \/ SnapshotDelete
    \/ SnapshotUpdate
    \/ SnapshotApplyEnvOverrides
    \/ StoreInSnapshot
    \/ StoreInNested

SpecSnapshot == InitSnapshot /\ [][NextSnapshot]_vars

-----------------------------------------------------------------------------
(* clear and reload on a ConfigManager that has loaded files, holds rules,   *)
(* an environment and the overrides read from the process environment        *)

ResetEnvirons ==
    {(N_config_b :> <<"7">>),
     (N_config_b :> <<"7">>) @@ (env_var_name :> <<"p","r","o","d">>)}
ResetPaths == {F_json, F_yml}

\* the overrides the environment manager holds
CachedOverrides ==
    IF env_overrides_cache = None THEN None ELSE Val(heap, env_overrides_cache)

\* the call `op(args)` took the ConfigManager to r and its validator's rules
\* to reg; what the environment manager held is kept with the call
ResetStep(op, args, r, reg) ==
    /\ LET c == Compact(r.h, <<r.config_data, r.resolved_cache,
                               r.env_overrides_cache, r.ret>>)
       IN  /\ heap' = c.h
           /\ config_data' = RenV(c.order, r.config_data)
           /\ resolved_cache' = RenV(c.order, r.resolved_cache)
           /\ env_overrides_cache' = RenV(c.order, r.env_overrides_cache)
           /\ last' = [op |-> op, args |-> args, ret |-> RenV(c.order, r.ret),
                       exc |-> r.exc,
                       before |-> [tree |-> Val(heap, config_data),
                                   sources |-> loaded_files, rules |-> rules,
                                   env |-> current_env,
                                   overrides |-> CachedOverrides,
                                   cached |-> resolved_cache # None]]
    /\ loaded_files' = r.loaded_files
    /\ current_env' = r.current_env
    /\ rules' = reg
    /\ UNCHANGED <<environ, m_in, m_out>>

\* a call that changes the store, its rules or its environment
ResetCall(op, args, r, reg) ==
    /\ steps < MaxResetSteps
    /\ steps' = steps + 1
    /\ UNCHANGED files
    /\ ResetStep(op, args, r, reg)

\* a call that reads
ResetRead(op, args, r) ==
    /\ UNCHANGED <<steps, files>>
    /\ ResetStep(op, args, r, rules)

InitReset ==
    /\ environ \in ResetEnvirons
    /\ files = InitialFiles
    /\ LET s == init_config_manager(environ, files)
       IN  /\ heap = s.h
           /\ config_data = s.config_data
           /\ loaded_files = s.loaded_files
           /\ resolved_cache = s.resolved_cache
           /\ current_env = s.current_env
           /\ env_overrides_cache = s.env_overrides_cache
    /\ last = NoCall
    /\ steps = 0
    /\ rules = <<>>
    /\ m_in = <<>>
    /\ m_out = None

ResetLoadFile ==
    \E f \in ResetPaths : ResetCall("load_file", <<f>>, load_file(Self, f), rules)

ResetAddRule ==
    \E a \in SessionRules :
        ResetCall("add_validation_rule", a, Self, add_rule(rules, a[1], a[2]).rules)

ResetSetEnvironment ==
    \E e \in SessionNames :
        ResetCall("set_environment", <<e>>, set_environment(Self, e), rules)

\* Path(...).unlink() by the process
ResetUnlink ==
    \E f \in ResetPaths :
        /\ files[f].exists
        /\ steps < MaxResetSteps
        /\ steps' = steps + 1
        /\ files' = [files EXCEPT ![f] = [exists |-> FALSE, data |-> None]]
        /\ ResetStep("unlink", <<f>>, Self, rules)

ResetClear == ResetCall("clear", <<>>, clear(Self), rules)

ResetReload == ResetCall("reload", <<>>, reload(Self), rules)

\* config.env_manager.get_env_overrides(prefix)
ResetGetEnvOverrides ==
    \E o \in Orders(environ, Prefix_config) :
        ResetRead("get_env_overrides", <<Prefix_config, TRUE>>,
                  EM_get_env_overrides(Self, o, Prefix_config, TRUE))

\* config.env_manager.current_environment
ResetReadEnvironment ==
    ResetRead("current_environment", <<>>, EM_current_environment(Self))

ResetGetResolvedConfig ==
    ResetRead("get_resolved_config", <<TRUE>>, get_resolved_config(Self, TRUE))

NextReset ==
    \/ ResetLoadFile
    \/ ResetAddRule
    \/ ResetSetEnvironment
    \/ ResetUnlink
    \/ ResetClear
    \/ ResetReload
    \/ ResetGetEnvOverrides
    \/ ResetReadEnvironment
    \/ ResetGetResolvedConfig

SpecReset == InitReset /\ [][NextReset]_vars

-----------------------------------------------------------------------------
(* Trees: what the specification says of values, computed on trees and not  *)
(* on objects                                                               *)

EmptyTree == DictT(EmptyMap)

\* deepMerge of two dict trees
RECURSIVE TreeMerge(_, _)
TreeMerge(base, overlay) ==
    DictT([k \in DOMAIN base.m \cup DOMAIN overlay.m |->
              IF k \notin DOMAIN overlay.m THEN base.m[k]
              ELSE IF /\ k \in DOMAIN base.m
                      /\ base.m[k].t = "dict"
                      /\ overlay.m[k].t = "dict"
              THEN TreeMerge(base.m[k], overlay.m[k])
              ELSE overlay.m[k]])

\* the path keys exists in tree
RECURSIVE TreeHas(_, _)
TreeHas(tree, keys) ==
    \/ keys = <<>>
    \/ /\ tree.t = "dict"
       /\ Head(keys) \in DOMAIN tree.m
       /\ TreeHas(tree.m[Head(keys)], Tail(keys))

\* the value at an existing path
RECURSIVE TreeAt(_, _)
TreeAt(tree, keys) ==
    IF keys = <<>> THEN tree ELSE TreeAt(tree.m[Head(keys)], Tail(keys))

\* a dict tree without one key
TreeWithout(tree, k) == DictT(DelKey(tree.m, k))

\* the raw tree and the active environment of the ConfigManager
RawTree == Val(heap, config_data)
ActiveEnvironment == current_environment(current_env, environ)

-----------------------------------------------------------------------------
(* Properties *)

\* the resolution computed afresh from the raw tree and the active environment
FreshResolution == LET r == ResolveFresh(Self) IN Val(r.h, r.ret)

\* C1: cache coherence.  In every reachable state the cached resolution, when
\* there is one, equals the resolution computed afresh from the current raw
\* tree and the current active environment, and so does the value that
\* get_resolved_config has just returned: no call returns a stale result.
C1_CacheCoherence ==
    /\ resolved_cache # None => Val(heap, resolved_cache) = FreshResolution
    /\ last.op = "get_resolved_config" => Val(heap, last.ret) = FreshResolution

\* get_resolved_config(use_cache=True) has returned the environment overlay of
\* an environment chosen by set_environment, and has cached it
C1_Witness ==
    /\ last.op = "get_resolved_config"
    /\ last.args = <<TRUE>>
    /\ resolved_cache = last.ret
    /\ env_var_name \notin DOMAIN environ
    /\ current_env = EnvV(Production)
    /\ Val(heap, last.ret) # RawTree
    /\ Val(heap, last.ret) # EmptyTree

\* the tree a load decoded: the dict given to load_dict, or what the loader of
\* the file's extension returned
Decoded(call) ==
    IF call.op = "load_dict" THEN call.args[1]
    ELSE loader_load(loaders[Lower(Suffix(call.args[1]))], files[call.args[1]].data).v

\* the trees of a list of files merged in order over tree
RECURSIVE MergedFiles(_, _)
MergedFiles(tree, paths) ==
    IF paths = <<>> THEN tree
    ELSE MergedFiles(TreeMerge(tree, files[Head(paths)].data), Tail(paths))

\* C2: load precedence.  Every successful load_file or load_dict replaces the
\* raw tree by deepMerge(raw tree before, decoded tree), the decoded tree
\* winning; and while every call made so far was a successful load_file, the
\* raw tree is the merge of the loaded files in the order of loading, starting
\* from the empty tree (A then B gives deepMerge(A, B)).
C2_LoadPrecedence ==
    /\ [][(last'.op \in {"load_file", "load_dict"} /\ last'.exc = "none")
            => Val(heap', config_data') = TreeMerge(RawTree, Decoded(last'))]_vars
    /\ [](steps = Len(loaded_files) => RawTree = MergedFiles(EmptyTree, loaded_files))

\* two different files were loaded into the empty store, the second one
\* changing a nested value of the first and keeping another
C2_Witness ==
    /\ steps = 2
    /\ loaded_files = <<F_json, F_yml>>
    /\ RawTree.m[K_a].m[K_b] = IntV(4)
    /\ RawTree.m[K_b] = IntV(1)

\* result is what the specification says of deepMerge(base, overlay), key by key
RECURSIVE KeyWiseMerge(_, _, _)
KeyWiseMerge(base, overlay, result) ==
    /\ result.t = "dict"
    /\ DOMAIN result.m = DOMAIN base.m \cup DOMAIN overlay.m
    /\ \A k \in DOMAIN result.m :
         IF k \in DOMAIN base.m /\ k \in DOMAIN overlay.m
            /\ base.m[k].t = "dict" /\ overlay.m[k].t = "dict"
         THEN KeyWiseMerge(base.m[k], overlay.m[k], result.m[k])
         ELSE IF k \in DOMAIN overlay.m THEN result.m[k] = overlay.m[k]
         ELSE result.m[k] = base.m[k]

\* C3: the result of deep_merge(base, overlay) has exactly the keys of base
\* and of overlay; at a key of both whose two values are dicts it is the
\* deep_merge of the two values; at any other key of overlay it is overlay's
\* value; at a key of base only it is base's value.
C3_MergeKeyWise ==
    last.op = "deep_merge" => KeyWiseMerge(last.args[1], last.args[2], last.ret)

\* a merge that recursed twice, and that replaced a dict by a scalar and kept
\* a key of base two levels down
C3_Witness ==
    /\ last.op = "deep_merge"
    /\ last.args[1] = DictT(K_a :> DictT(K_a :> DictT((K_a :> IntV(1)) @@
                                                      (K_b :> ListT(<<IntV(2)>>)))))
    /\ last.args[2] = DictT(K_a :> DictT((K_a :> DictT(K_b :> None)) @@ (K_b :> IntV(1))))
    /\ last.ret = DictT(K_a :> DictT((K_a :> DictT((K_a :> IntV(1)) @@ (K_b :> None))) @@
                                     (K_b :> IntV(1))))

\* C4: deep_merge leaves both arguments as they were and returns objects that
\* neither argument can reach; a later in-place change of the result changes
\* neither argument, and a later in-place change of an argument does not
\* change the result.
C4_MergeFresh ==
    /\ last.op \in {"deep_merge", "mutate_result"} =>
         /\ Val(heap, m_in.base) = last.args[1]
         /\ Val(heap, m_in.overlay) = last.args[2]
    /\ last.op \in {"deep_merge", "mutate_input"} => Val(heap, m_out) = last.ret
    /\ m_out # None =>
         Reach(heap, {m_out}) \cap Reach(heap, {m_in.base, m_in.overlay}) = {}

\* the caller changed, inside a dict that the overlay replaced wholesale, the
\* result of a merge, and the overlay still holds its value
C4_Witness ==
    /\ last.op = "mutate_result"
    /\ last.args[1] = DictT(K_a :> IntV(1))
    /\ last.args[2] = DictT(K_a :> DictT(K_b :> IntV(3)))
    /\ last.ret = last.args[2]
    /\ Val(heap, m_out) = DictT(K_a :> DictT(K_b :> IntV(8)))
    /\ Val(heap, m_in.overlay) = last.args[2]

\* the environment block of the raw tree: the value at the top-level key that
\* is the active environment's id
HasEnvBlock ==
    /\ ActiveEnvironment.value \in DOMAIN RawTree.m
    /\ RawTree.m[ActiveEnvironment.value].t = "dict"
EnvBlock == RawTree.m[ActiveEnvironment.value]

\* deepMerge(raw tree without the environment key, environment block)
Overlaid == TreeMerge(TreeWithout(RawTree, ActiveEnvironment.value), EnvBlock)

\* C5 as stated: when the raw tree holds a dict at the active environment's
\* id, get_resolved_config returns deepMerge(raw tree without that key, that
\* block), and the environment key is absent from the result.
C5_Original ==
    (last.op = "get_resolved_config" /\ HasEnvBlock) =>
        /\ Val(heap, last.ret) = Overlaid
        /\ ActiveEnvironment.value \notin DOMAIN Val(heap, last.ret).m

\* C5: when the raw tree holds a dict at the active environment's id,
\* get_resolved_config returns deepMerge(raw tree without that key, that
\* block): the block's values win at every depth and the other values are
\* kept.  The environment key is in the result only when the block itself has
\* a key of that name, and then with the block's value.
C5_EnvOverlay ==
    (last.op = "get_resolved_config" /\ HasEnvBlock) =>
        /\ Val(heap, last.ret) = Overlaid
        /\ ActiveEnvironment.value \in DOMAIN Val(heap, last.ret).m
             <=> ActiveEnvironment.value \in DOMAIN EnvBlock.m
        /\ ActiveEnvironment.value \in DOMAIN EnvBlock.m =>
             Val(heap, last.ret).m[ActiveEnvironment.value]
                 = EnvBlock.m[ActiveEnvironment.value]

\* get_resolved_config has merged the development block of T_base two levels
\* down: a.a comes from the block, a.b from its sibling
C5_Witness ==
    /\ last.op = "get_resolved_config"
    /\ RawTree = T_base
    /\ ActiveEnvironment = EnvV(Development)
    /\ Val(heap, last.ret) = DictT(K_a :> DictT((K_a :> IntV(9)) @@ (K_b :> IntV(2))))

\* the keys of '<active environment id>.<path>' and of the bare path
EnvKeys(path) == Split(ActiveEnvironment.value \o <<Sep>> \o path, Sep)
BareKeys(path) == Split(path, Sep)

\* what the two-tier probe of the raw tree gives for path
Probed(path, default) ==
    IF TreeHas(RawTree, EnvKeys(path)) /\ TreeAt(RawTree, EnvKeys(path)) # None
    THEN TreeAt(RawTree, EnvKeys(path))
    ELSE IF TreeHas(RawTree, BareKeys(path)) THEN TreeAt(RawTree, BareKeys(path))
    ELSE default

\* C6: get(path, default) returns the value of the raw tree at
\* '<active environment id>.<path>' when that value is not null, otherwise the
\* value at the bare path when the bare path exists, otherwise default; the
\* active environment is the one in force at the call, so the get that
\* follows a set_environment probes the new environment's block.
C6_GetProbe ==
    last.op = "get" => Val(heap, last.ret) = Probed(last.args[1], last.args[2])

\* after set_environment('prod') (APP_ENV is not set), get('a') has returned
\* the value of production.a and not the dict at a
C6_Witness ==
    /\ last.op = "get"
    /\ last.args = <<P_a, None>>
    /\ env_var_name \notin DOMAIN environ
    /\ current_env = EnvV(Production)
    /\ RawTree = T_null
    /\ last.ret = IntV(7)

\* C7: has(path) is true exactly when '<active environment id>.<path>' or the
\* bare path exists in the raw tree, a key holding null counting as existing.
C7_Has ==
    last.op = "has" =>
        last.ret = BoolV(\/ TreeHas(RawTree, EnvKeys(last.args[1]))
                         \/ TreeHas(RawTree, BareKeys(last.args[1])))

\* has('a.b') has returned true for a key that holds null and that has no
\* environment-specific value
C7_Witness ==
    /\ last.op = "has"
    /\ last.args = <<P_ab>>
    /\ last.ret = BoolV(TRUE)
    /\ ~TreeHas(RawTree, EnvKeys(P_ab))
    /\ TreeHas(RawTree, BareKeys(P_ab))
    /\ TreeAt(RawTree, BareKeys(P_ab)) = None

\* the paths of the leaves of a tree (<<>> for a value that is not a dict with
\* keys)
RECURSIVE TreeLeafPaths(_)
TreeLeafPaths(tree) ==
    IF tree.t = "dict" /\ DOMAIN tree.m # {}
    THEN UNION {{<<k>> \o p : p \in TreeLeafPaths(tree.m[k])} : k \in DOMAIN tree.m}
    ELSE {<<>>}

\* the process variables whose names start with prefix
Prefixed(prefix) == {n \in DOMAIN environ : StartsWith(n, prefix)}

\* C8 as stated, for the paths that have no environment-specific value: after
\* apply_env_overrides(prefix), get(p) returns the converted value of every
\* process variable whose name starts with prefix, p being the path derived
\* from the name.
C8_OverridesWin ==
    (last.op = "apply_env_overrides" /\ last.exc = "none") =>
        \A n \in Prefixed(last.args[1]) :
            ~TreeHas(RawTree, EnvKeys(ConfigKey(n, last.args[1]))) =>
                Val(heap, get(Self, ConfigKey(n, last.args[1]), None).ret)
                    = convert_env_value(environ[n])

\* C10 as stated, for the names only: the tree that get_env_overrides(p), with
\* caching on, returns has no leaf but at the paths derived from the process
\* variables whose names start with p.
C10_OnlyPrefixed ==
    (last.op = "get_env_overrides" /\ last.args[2]) =>
        TreeLeafPaths(Val(heap, last.ret)) \ {<<>>}
            \subseteq {Split(ConfigKey(n, last.args[1]), Sep) :
                          n \in Prefixed(last.args[1])}

\* value parses as an integer, as a float
ParsesAsInt(value) == int(value).exc = "none"
ParsesAsFloat(value) == float(value).exc = "none"

\* value holds '.', 'e' or 'E'
HasPointOrExponent(value) == Range(value) \cap {".", "e", "E"} # {}

\* the coercion with the numbers tried one after the other
CoercedInTurn(value) ==
    IF value = <<>> THEN StrV(<<>>)
    ELSE IF Lower(value) \in TrueWords THEN BoolV(TRUE)
    ELSE IF Lower(value) \in FalseWords THEN BoolV(FALSE)
    ELSE IF ParsesAsInt(value) /\ ~HasPointOrExponent(value) THEN int(value).v
    ELSE IF ParsesAsFloat(value) THEN float(value).v
    ELSE StrV(value)

\* the coercion with one number parser chosen by the characters of the value
CoercedByShape(value) ==
    IF value = <<>> THEN StrV(<<>>)
    ELSE IF Lower(value) \in TrueWords THEN BoolV(TRUE)
    ELSE IF Lower(value) \in FalseWords THEN BoolV(FALSE)
    ELSE IF ~HasPointOrExponent(value)
    THEN IF ParsesAsInt(value) THEN int(value).v ELSE StrV(value)
    ELSE IF ParsesAsFloat(value) THEN float(value).v ELSE StrV(value)

\* C9 as stated: the empty string stays the empty string; a true word becomes
\* true and a false word false, whatever the case; otherwise a value that
\* parses as an integer and holds no '.', 'e' or 'E' becomes that integer;
\* otherwise a value that parses as a float becomes that float; otherwise the
\* string is kept.
C9_Original == last.op = "_convert_env_value" => m_out = CoercedInTurn(m_in)

\* C9: the empty string stays the empty string; a true word becomes true and
\* a false word false, whatever the case (so "1" and "0" become booleans);
\* otherwise a value that holds no '.', 'e' or 'E' becomes an integer when it
\* parses as one and is kept as a string when it does not, even when it
\* parses as a float ("inf", "nan"); and a value that holds '.', 'e' or 'E'
\* becomes a float when it parses as one and is kept as a string otherwise.
C9_Coercion == last.op = "_convert_env_value" => m_out = CoercedByShape(m_in)

\* "1e1" has become the float 10 and not a string
C9_Witness ==
    /\ last.op = "_convert_env_value"
    /\ m_in = <<"1", "e", "1">>
    /\ m_out = float(<<"1", "0", ".", "0">>).v
    /\ m_out.t = "float"

-----------------------------------------------------------------------------
(* The EnvironmentManager *)

\* the trees get_env_overrides(prefix) computes from the process variables as
\* they are now, one for each order os.environ may yield them in
Recomputed(prefix) ==
    {LET a == Alloc(<<>>, DictObj(EmptyMap))
     IN  Val(OverridesLoop(a.h, a.v, environ, o, prefix), a.v) :
        o \in Orders(environ, prefix)}

OverrideCache == IF env_overrides_cache = None THEN None
                 ELSE Val(heap, env_overrides_cache)

\* a step that is the call get_env_overrides(prefix, cache)
GetsOverrides(cache) ==
    /\ last'.op = "get_env_overrides"
    /\ last'.args[2] = cache
    /\ steps' = steps + 1

\* C11: the lifecycle of the override cache.  (1) A cached call made while a
\* result is cached returns that result, whatever the process variables are now,
\* and leaves it cached. (2) A cached result stays as it is through every step
\* but set_environment and clear_cache. (3) set_environment (when it succeeds)
\* and clear_cache empty the cache. (4) A cached call made while nothing is
\* cached returns a tree computed from the process variables as they are now,
\* and caches it. (5) A call with cache=False returns a tree computed from the
\* process variables as they are now and leaves the cache as it was.
C11_CacheLifecycle ==
    /\ [][GetsOverrides(TRUE) /\ env_overrides_cache # None =>
            /\ Val(heap', last'.ret) = OverrideCache
            /\ env_overrides_cache' = last'.ret]_vars
    /\ [][/\ env_overrides_cache # None
          /\ ~(last'.op = "set_environment" /\ last'.exc = "none")
          /\ last'.op # "clear_cache"
          => OverrideCache' = OverrideCache]_vars
    /\ [][\/ last'.op = "set_environment" /\ last'.exc = "none"
          \/ last'.op = "clear_cache"
          => env_overrides_cache' = None]_vars
    /\ [][GetsOverrides(TRUE) /\ env_overrides_cache = None =>
            /\ Val(heap', last'.ret) \in Recomputed(last'.args[1])
            /\ env_overrides_cache' = last'.ret]_vars
    /\ [][GetsOverrides(FALSE) =>
            /\ Val(heap', last'.ret) \in Recomputed(last'.args[1])
            /\ OverrideCache' = OverrideCache
            /\ (env_overrides_cache # None => last'.ret # env_overrides_cache')]_vars

\* a cached call has returned the cached tree although the process variables
\* now give another one
C11_Witness ==
    /\ last.op = "get_env_overrides"
    /\ last.args = <<Prefix_config, TRUE>>
    /\ last.ret = env_overrides_cache
    /\ Val(heap, last.ret) \notin Recomputed(Prefix_config)

\* the environment the designated process variable names now: the one its
\* value parses to, development when the variable is missing or does not parse
Designated ==
    IF env_var_name \notin DOMAIN environ THEN EnvV(Development)
    ELSE IF from_string(environ[env_var_name]).exc # "none" THEN EnvV(Development)
    ELSE from_string(environ[env_var_name]).v

\* C12: precedence of the active environment.  A read of current_environment
\* never raises; it returns the environment the manager holds when it holds one
\* and otherwise the one the designated process variable names at that read
\* (development when the variable is missing or does not parse), which the
\* manager then holds.  A successful set_environment makes the manager hold the
\* environment it was given, and no other call changes what the manager holds:
\* so an explicitly set environment wins over the process variable, and the
\* process variable wins over development.
C12_Precedence ==
    /\ [][last'.op = "current_environment" /\ steps' = steps + 1 =>
            /\ last'.exc = "none"
            /\ last'.ret = (IF current_env # None THEN current_env ELSE Designated)
            /\ current_env' = last'.ret]_vars
    /\ [][last'.op = "set_environment" /\ steps' = steps + 1 =>
            IF last'.exc = "none"
            THEN /\ Strip(Lower(last'.args[1])) \in DOMAIN env_map \cup Environments
                 /\ current_env' \in {EnvV(e) : e \in Environments}
                 /\ \/ Strip(Lower(last'.args[1])) = current_env'.value
                    \/ /\ Strip(Lower(last'.args[1])) \in DOMAIN env_map
                       /\ env_map[Strip(Lower(last'.args[1]))] = current_env'.value
            ELSE current_env' = current_env]_vars
    /\ [][last'.op \notin {"current_environment", "set_environment"} =>
            current_env' = current_env]_vars

\* current_environment has returned production, set by set_environment('prod'),
\* while the process variable names another environment
C12_Witness ==
    /\ last.op = "current_environment"
    /\ last.ret = EnvV(Production)
    /\ env_var_name \in DOMAIN environ
    /\ Designated # EnvV(Production)
    /\ from_string(environ[env_var_name]).exc = "none"

\* the string names an environment: trimmed and lower-cased it is an alias or
\* a canonical value
NamesEnvironment(str) == Strip(Lower(str)) \in DOMAIN env_map \cup Environments

ResolvedCache == IF resolved_cache = None THEN None
                 ELSE Val(heap, resolved_cache)

\* C13: set_environment with a string that matches no alias and no canonical
\* value raises and changes nothing: the active environment, the override
\* cache, the resolved-config cache and the raw tree are as
\* before the call.  A successful set_environment clears the override cache.
C13_SetEnvironment ==
    [][last'.op = "set_environment" /\ steps' = steps + 1 =>
          IF NamesEnvironment(last'.args[1])
          THEN /\ last'.exc = "none"
               /\ env_overrides_cache' = None
          ELSE /\ last'.exc = "ValueError"
               /\ current_env' = current_env
               /\ OverrideCache' = OverrideCache
               /\ ResolvedCache' = ResolvedCache
               /\ RawTree' = RawTree
               /\ loaded_files' = loaded_files]_vars

\* set_environment('bogus') has raised on a store that holds an active
\* environment, cached overrides and a cached resolution
C13_Witness ==
    /\ last.op = "set_environment"
    /\ last.exc = "ValueError"
    /\ current_env # None
    /\ env_overrides_cache # None
    /\ resolved_cache # None

-----------------------------------------------------------------------------
(* Environment.from_string *)

\* C14: alias idempotence.  For every alias or canonical name x, from_string
\* of x in upper case, of x surrounded by whitespace, and of both, returns what
\* from_string(x) returns, which is one of the four environments and not an
\* error.
C14_AliasIdempotence ==
    last.op = "from_string" =>
        \A x \in EnvironmentAliases :
            m_in[1] \in Spellings(x) =>
                /\ m_out = from_string(x)
                /\ m_out.exc = "none"
                /\ m_out.v \in {EnvV(e) : e \in Environments}

\* from_string has returned staging for 'PRE-PRODUCTION' between a tab and a
\* newline
C14_Witness ==
    /\ last.op = "from_string"
    /\ m_in = <<Spelled(<<"p","r","e","-","p","r","o","d","u","c","t","i","o","n">>,
                        TRUE, <<"\t">>, <<"\n">>)>>
    /\ m_out = Returned(EnvV(Staging))

-----------------------------------------------------------------------------
(* The ConfigValidator *)

\* the tree the last validate was given, and the errors it returned or raised
Validated == last.args[1]
Errors == IF last.exc = "none" THEN last.ret.e ELSE last.errors.e

\* the tree has no value, or null, at the key path
Absent(tree, key_path) ==
    \/ ~TreeHas(tree, Split(key_path, Sep))
    \/ TreeAt(tree, Split(key_path, Sep)) = None

\* the positions of the errors that are about the key path
ErrorsAbout(key_path) ==
    {k \in 1..Len(Errors) : StartsWith(Errors[k].s, key_path \o <<":"," ">>)}

\* C15: required against optional.  After validate, for every registered key
\* path whose value in the validated tree is absent or null: when one rule or
\* more of the path is marked required there is exactly one error about the
\* path, '<path>: Required key is missing'; when none is, there is no error
\* about the path; and in both cases no rule of the path was run.
C15_RequiredOrOptional ==
    last.op = "validate" =>
        \A i \in 1..Len(rules) :
            Absent(Validated, rules[i].key_path) =>
                /\ IF \E j \in 1..Len(rules[i].rules) : rules[i].rules[j].required
                   THEN \E k \in 1..Len(Errors) :
                            /\ ErrorsAbout(rules[i].key_path) = {k}
                            /\ Errors[k] = StrV(rules[i].key_path
                                                \o <<":"," ","R","e","q","u","i","r","e","d"," ","k","e","y"," ","i","s"," ","m","i","s","s","i","n","g">>)
                   ELSE ErrorsAbout(rules[i].key_path) = {}
                /\ \A k \in 1..Len(last.ran) : last.ran[k][1] # rules[i].key_path

\* validate was given a tree without 'b' while 'b' has three rules, two of
\* them required, and has reported one error
C15_Witness ==
    /\ last.op = "validate"
    /\ Validated = V_large
    /\ Position(rules, P_b) # 0
    /\ Len(rules[Position(rules, P_b)].rules) = 3
    /\ Cardinality({j \in 1..3 : rules[Position(rules, P_b)].rules[j].required}) = 2
    /\ Len(Errors) = 1

\* the value the validated tree has at the key path of entry i
ValueAt(i) == TreeAt(Validated, Split(rules[i].key_path, Sep))

\* the predicate of the rule returns false or raises on the value
Fails(rule, value) ==
    \/ Apply(rule.validator_func, value).exc # "none"
    \/ ~Apply(rule.validator_func, value).v.b

\* what validate has to report: <<i, j>> for rule j of entry i failing on a
\* present value, <<i, 0>> for entry i having a required rule and no value
Violations ==
    {<<i, 0>> : i \in {k \in 1..Len(rules) :
                          /\ Absent(Validated, rules[k].key_path)
                          /\ \E j \in 1..Len(rules[k].rules) : rules[k].rules[j].required}}
    \cup
    UNION {{<<i, j>> : j \in {n \in 1..Len(rules[i].rules) :
                                 /\ ~Absent(Validated, rules[i].key_path)
                                 /\ Fails(rules[i].rules[n], ValueAt(i))}} :
           i \in 1..Len(rules)}

\* the rules validate has to run: every rule of every entry that has a value
Runs ==
    UNION {{<<i, j>> : j \in {n \in 1..Len(rules[i].rules) :
                                 ~Absent(Validated, rules[i].key_path)}} :
           i \in 1..Len(rules)}

\* the place of x among the pairs of S, in the order of the registry
Place(S, x) ==
    1 + Cardinality({y \in S : y[1] < x[1] \/ (y[1] = x[1] /\ y[2] < x[2])})

\* the entry of the error list for a violation
Entry(x) ==
    IF x[2] = 0
    THEN StrV(rules[x[1]].key_path \o <<":"," ","R","e","q","u","i","r","e","d"," ","k","e","y"," ","i","s"," ","m","i","s","s","i","n","g">>)
    ELSE StrV(rules[x[1]].key_path \o <<":"," ">> \o rules[x[1]].rules[x[2]].error_message
              \o <<" ","(","v","a","l","u","e",":"," ">> \o py_str(ValueAt(x[1])) \o <<")">>)

\* C16: order and completeness of the output.  validate runs every rule of
\* every key path that has a value, the key paths in the order of their
\* registration and the rules of a path in the order they were added; its
\* error list has one entry '<path>: <error message> (value: <value>)' for
\* each rule that fails (and one for each missing required path), in that same
\* order, and nothing else.
C16_OrderedComplete ==
    last.op = "validate" =>
        /\ Len(last.ran) = Cardinality(Runs)
        /\ \A x \in Runs :
               last.ran[Place(Runs, x)]
                   = <<rules[x[1]].key_path, rules[x[1]].rules[x[2]].name>>
        /\ Len(Errors) = Cardinality(Violations)
        /\ \A x \in Violations : Errors[Place(Violations, x)] = Entry(x)

\* validate has reported, in this order, the two rules of 'a.b' failing on 'x'
\* and the rule of 'b', registered after 'a.b', failing on the empty string
C16_Witness ==
    /\ last.op = "validate"
    /\ Validated = V_text
    /\ Len(rules) = 2
    /\ rules[1].key_path = P_ab
    /\ Len(rules[1].rules) = 2
    /\ Len(Errors) = 3
    /\ Errors[1] = StrV(<<"a",".","b",":"," ","m","u","s","t"," ","b","e"," ","a"," ","v","a","l","i","d"," ","p","o","r","t"," ","n","u","m","b","e","r"," ","(","1","-","6","5","5","3","5",")"," ","(","v","a","l","u","e",":"," ","x",")">>)
    /\ Errors[3] = StrV(<<"b",":"," ","i","s"," ","r","e","q","u","i","r","e","d"," ","a","n","d"," ","c","a","n","n","o","t"," ","b","e"," ","e","m","p","t","y"," ","(","v","a","l","u","e",":"," ",")">>)

\* what validate returns for the same tree when it is told not to raise
ReturnedQuietly ==
    LET b == Build(<<>>, Validated)
    IN  validate(rules, b.h, b.v, FALSE).ret

\* C17: validate raises ConfigValidationError if and only if raise_on_error is
\* true and there is a violation or more, and it raises nothing else; the error
\* raised carries the list, complete and in order, that validate returns for
\* the same tree with raise_on_error false; with raise_on_error false validate
\* returns the list, empty or not.
C17_RaiseOnError ==
    last.op = "validate" =>
        /\ last.exc \in {"none", "ConfigValidationError"}
        /\ last.exc = "ConfigValidationError" <=> (last.args[2] /\ Violations # {})
        /\ last.exc = "ConfigValidationError" =>
               /\ last.errors = ReturnedQuietly
               /\ Len(last.errors.e) = Cardinality(Violations)
        /\ last.exc = "none" =>
               /\ last.ret = ReturnedQuietly
               /\ Len(last.ret.e) = Cardinality(Violations)

\* validate(raise_on_error=True) has raised an error that carries two
\* violations
C17_Witness ==
    /\ last.op = "validate"
    /\ last.args[2]
    /\ last.exc = "ConfigValidationError"
    /\ Len(last.errors.e) = 2
    /\ last.errors.e[1] # last.errors.e[2]

\* the rules validate meets whose predicate raises on the value of their path
RaisingRuns ==
    {x \in Runs : Apply(rules[x[1]].rules[x[2]].validator_func, ValueAt(x[1])).exc # "none"}

\* C18: a predicate that raises.  After validate, for every rule whose
\* predicate raises on the value of its key path: ValidationRule.validate
\* returns false for that value; validate has recorded the rule's violation,
\* once, at the rule's place; it has gone on to run every later rule and key
\* path; and it has raised nothing but, when asked to, the validation error.
C18_RaisingPredicate ==
    last.op = "validate" =>
        \A x \in RaisingRuns :
            /\ rule_validate(rules[x[1]].rules[x[2]], ValueAt(x[1])) = Returned(BoolV(FALSE))
            /\ x \in Violations
            /\ Errors[Place(Violations, x)] = Entry(x)
            /\ Len(Errors) = Cardinality(Violations)
            /\ Len(last.ran) = Cardinality(Runs)
            /\ \A y \in Runs :
                   last.ran[Place(Runs, y)]
                       = <<rules[y[1]].key_path, rules[y[1]].rules[y[2]].name>>
            /\ last.exc \in {"none", "ConfigValidationError"}

\* the predicate of the first rule of 'a.b' has raised on 'x', and validate has
\* gone on to the second rule of 'a.b' and to the rule of 'b', reporting three
\* violations
C18_Witness ==
    /\ last.op = "validate"
    /\ Validated = V_text
    /\ <<1, 1>> \in RaisingRuns
    /\ Len(last.ran) = 3
    /\ last.ran[3][1] = P_b
    /\ Len(Errors) = 3
    /\ Errors[1] = StrV(<<"a",".","b",":"," ","m","u","s","t"," ","b","e"," ","a"," ","p","o","s","i","t","i","v","e"," ","i","n","t","e","g","e","r"," ","(","v","a","l","u","e",":"," ","x",")">>)

\* sub occurs in s
Contains(s, sub) ==
    \E i \in 1..(Len(s) - Len(sub) + 1) : SubSeq(s, i, i + Len(sub) - 1) = sub

\* the key paths of the registry, in its order
KeyPaths(reg) == [i \in 1..Len(reg) |-> reg[i].key_path]

\* the rule is a name that is not the name of a built-in rule
UnknownName(rule) ==
    /\ "t" \in DOMAIN rule
    /\ rule.s \notin {<<"u","r","l">>, <<"p","o","r","t">>, <<"e","m","a","i","l">>, <<"r","e","q","u","i","r","e","d">>}

\* the rule given to add_rule is the rule r now in the registry
IsRuleGiven(r, rule) ==
    IF "t" \in DOMAIN rule THEN r.name = rule.s ELSE r = rule

\* the list after is the list before with the rule given at its end
Appended(before, after, rule) ==
    /\ Len(after) = Len(before) + 1
    /\ SubSeq(after, 1, Len(before)) = before
    /\ IsRuleGiven(after[Len(after)], rule)

\* C19: add_rule.  A call with the name of no built-in rule raises an error
\* whose message names the rule, and leaves the registry exactly as it was (no
\* entry is made for the key path).  Every other call appends the rule at the
\* end of the list of its key path, the earlier rules staying in their order:
\* the list of an entry that exists, whose place and whose neighbours do not
\* change, or the list of a new entry put after all the others.
C19_AddRule ==
    [][last'.op = "add_rule" /\ steps' = steps + 1 =>
          IF UnknownName(last'.args[2])
          THEN /\ last'.exc = "ValueError"
               /\ Contains(last'.msg, <<"'">> \o last'.args[2].s \o <<"'">>)
               /\ rules' = rules
          ELSE /\ last'.exc = "none"
               /\ \A i \in 1..Len(rules') : rules'[i].rules # <<>>
               /\ IF \E i \in 1..Len(rules) : rules[i].key_path = last'.args[1]
                  THEN /\ KeyPaths(rules') = KeyPaths(rules)
                       /\ \A i \in 1..Len(rules) :
                              IF rules[i].key_path = last'.args[1]
                              THEN Appended(rules[i].rules, rules'[i].rules,
                                            last'.args[2])
                              ELSE rules'[i] = rules[i]
                  ELSE /\ KeyPaths(rules') = Append(KeyPaths(rules), last'.args[1])
                       /\ SubSeq(rules', 1, Len(rules)) = rules
                       /\ Appended(<<>>, rules'[Len(rules')].rules, last'.args[2])]_vars

\* add_rule('a.b', 'nope') has raised while 'b' alone is registered, and 'a.b'
\* has no entry
C19_Witness ==
    /\ last.op = "add_rule"
    /\ last.args = <<P_ab, StrV(R_unknown)>>
    /\ last.exc = "ValueError"
    /\ KeyPaths(rules) = <<P_b>>

\* the registry without the entry of key_path
Unregistered(reg, key_path) == SelectSeq(reg, LAMBDA e : e.key_path # key_path)

\* the rules of the entry of key_path that are not named name, in their order
RulesKept(reg, key_path, name) ==
    SelectSeq(reg[CHOOSE i \in 1..Len(reg) : reg[i].key_path = key_path].rules,
              LAMBDA r : r.name # name)

\* C20: remove_rule.  On a key path that is not registered it changes nothing.
\* With no name it removes the entry of the key path.  With a name it removes
\* from the entry the rules of that name and keeps the others in their order,
\* the entry staying at its place, and removes the entry when no rule is left.
\* The other entries are never touched.  And in every state of the registry,
\* whatever add_rule and remove_rule calls were made, no key path has an empty
\* list of rules.
C20_RemoveRule ==
    /\ [][last'.op = "remove_rule" /\ steps' = steps + 1 =>
            /\ last'.exc = "none"
            /\ IF \A i \in 1..Len(rules) : rules[i].key_path # last'.args[1]
               THEN rules' = rules
               ELSE IF last'.args[2] = None
               THEN rules' = Unregistered(rules, last'.args[1])
               ELSE IF RulesKept(rules, last'.args[1], last'.args[2].s) = <<>>
               THEN rules' = Unregistered(rules, last'.args[1])
               ELSE /\ KeyPaths(rules') = KeyPaths(rules)
                    /\ \A i \in 1..Len(rules) :
                           IF rules[i].key_path = last'.args[1]
                           THEN rules'[i].rules
                                    = RulesKept(rules, last'.args[1], last'.args[2].s)
                           ELSE rules'[i] = rules[i]]_vars
    /\ [](\A i \in 1..Len(rules) :
              /\ rules[i].rules # <<>>
              /\ \A j \in 1..Len(rules) : rules[j].key_path = rules[i].key_path => j = i)

\* remove_rule('a.b', 'port') has been called after two add_rule calls and the
\* entry of 'a.b' holds the caller's rule alone
C20_Witness ==
    /\ last.op = "remove_rule"
    /\ last.args = <<P_ab, StrV(R_port)>>
    /\ steps = 3
    /\ rules = <<[key_path |-> P_ab, rules |-> <<Rule_strict_int>>]>>

\* a step that is a load_file call
LoadsFile == last'.op = "load_file"

\* the tree that load_file decodes from the file at path
FileTree(path) ==
    loader_load(loaders[Lower(Suffix(path))], files[path].data)

\* the file at path exists, has a registered codec and decodes to a dict
Loadable(path) ==
    /\ files[path].exists
    /\ Lower(Suffix(path)) \in DOMAIN loaders
    /\ FileTree(path).exc = "none"
    /\ FileTree(path).v.t = "dict"

\* C21: a failed load changes nothing.  Every load_file call on a file that
\* does not exist, whose extension has no codec, or that the codec fails to
\* decode raises, and the raw tree, the source list and the resolved-config
\* cache are after the call what they were before it; a call that returns has
\* merged the decoded tree over the raw tree and appended the path to the
\* source list, which no raising call does.
C21_FailedLoad ==
    /\ [][(LoadsFile /\ ~Loadable(last'.args[1])) =>
            /\ last'.exc # "none"
            /\ Val(heap', config_data') = RawTree
            /\ config_data' = config_data
            /\ loaded_files' = loaded_files
            /\ ResolvedCache' = ResolvedCache
            /\ (resolved_cache = None) <=> (resolved_cache' = None)]_vars
    /\ [][(LoadsFile /\ Loadable(last'.args[1])) =>
            /\ last'.exc = "none"
            /\ Val(heap', config_data') = TreeMerge(RawTree, FileTree(last'.args[1]).v)
            /\ loaded_files' = Append(loaded_files, last'.args[1])]_vars
    /\ [][(LoadsFile /\ last'.exc # "none") => loaded_files' = loaded_files]_vars

\* a load of a file rewritten with text that its codec cannot decode has
\* raised ValueError on a store that holds a loaded file and a filled cache
C21_Witness ==
    /\ last.op = "load_file"
    /\ last.exc = "ValueError"
    /\ files[last.args[1]].exists
    /\ files[last.args[1]].data = Malformed
    /\ loaded_files # <<>>
    /\ RawTree # EmptyTree
    /\ resolved_cache # None

\* the recorded sources that still exist
StillExisting(paths) == SelectSeq(paths, LAMBDA f : files[f].exists)

\* paths loaded one after another into the store acc, up to the first one that
\* fails to load
RECURSIVE LoadedInOrder(_, _)
LoadedInOrder(acc, paths) ==
    IF paths = <<>> THEN acc
    ELSE IF ~Loadable(Head(paths)) THEN [acc EXCEPT !.raised = TRUE]
    ELSE LoadedInOrder([acc EXCEPT !.tree = TreeMerge(@, FileTree(Head(paths)).v),
                                   !.sources = Append(@, Head(paths))],
                       Tail(paths))

EmptyStore == [tree |-> EmptyTree, sources |-> <<>>, raised |-> FALSE]

\* the outcome of reload is that of loading paths in order into an empty store
ReloadedFrom(paths) ==
    LET e == LoadedInOrder(EmptyStore, paths)
    IN  /\ loaded_files' = e.sources
        /\ Val(heap', config_data') = e.tree
        /\ (last'.exc = "none") <=> ~e.raised

RECURSIVE TreeRemove(_, _)
TreeRemove(tree, keys) ==
    IF Len(keys) = 1 THEN TreeWithout(tree, keys[1])
    ELSE DictT([tree.m EXCEPT ![Head(keys)] = TreeRemove(@, Tail(keys))])

\* C23: delete never raises.  When the parent of the final segment does not
\* exist, a value on the way is not a dict (a scalar, a string, a list or
\* null), or the final key is absent, delete(path) returns and the raw tree is
\* what it was; when the final key is in its parent dict, the raw tree is what
\* it was without exactly that key.
C23_Delete ==
    last.op = "delete" =>
        /\ last.exc = "none"
        /\ RawTree = IF TreeHas(last.before.tree, BareKeys(last.args[1]))
                     THEN TreeRemove(last.before.tree, BareKeys(last.args[1]))
                     ELSE last.before.tree

\* delete('a.b') has returned on a tree in which a holds the string 'b' (the
\* test `'b' in 'b'` of the code is true, and the del raises TypeError, which
\* is caught): nothing was removed
C23_Witness ==
    /\ last.op = "delete"
    /\ last.args = <<P_ab>>
    /\ last.exc = "none"
    /\ last.before.tree = A_leaves
    /\ RawTree = A_leaves

\* a call that deleted by path and returned
Deleted == last.op \in {"delete", "__delitem__"} /\ last.exc = "none"

\* the paths of a tree, through dicts, that do not pass by the path keys
RECURSIVE PathsBeside(_, _)
PathsBeside(tree, keys) ==
    IF tree.t # "dict" THEN {}
    ELSE UNION {IF keys = <<k>> THEN {}
                ELSE {<<k>>} \cup
                     {<<k>> \o p :
                         p \in PathsBeside(tree.m[k],
                                           IF keys # <<>> /\ Head(keys) = k
                                           THEN Tail(keys) ELSE <<>>)} :
                k \in DOMAIN tree.m}

\* the keys that existed beside the deleted path still exist
SiblingsKept ==
    \A q \in PathsBeside(last.before.tree, BareKeys(last.args[1])) :
        TreeHas(RawTree, q)

\* C24 as stated: after delete(p), or a del config[p] that did not raise,
\* has(p) is false and `p in config` is false, and the sibling keys that
\* existed before still exist.
C24_Original ==
    Deleted =>
        /\ ~has(Self, last.args[1]).ret.b
        /\ ~__contains__(Self, last.args[1]).ret.b
        /\ SiblingsKept

\* C24: after delete(p), or a del config[p] that did not raise, the raw tree
\* has no path p, and has(p) and `p in config` are false unless the raw tree
\* holds '<active environment id>.<p>', in which case they are true; the
\* sibling keys that existed before still exist.
C24_DeleteFromView ==
    Deleted =>
        /\ ~TreeHas(RawTree, BareKeys(last.args[1]))
        /\ has(Self, last.args[1]).ret.b = TreeHas(RawTree, EnvKeys(last.args[1]))
        /\ __contains__(Self, last.args[1]).ret.b
             = TreeHas(RawTree, EnvKeys(last.args[1]))
        /\ SiblingsKept

\* del config['a.b'] has removed a key that held null: has('a.b') is false and
\* the sibling a.a is still there
C24_Witness ==
    /\ last.op = "__delitem__"
    /\ last.args = <<P_ab>>
    /\ last.exc = "none"
    /\ last.before.tree = A_nested
    /\ ~has(Self, P_ab).ret.b
    /\ TreeHas(RawTree, <<K_a, K_a>>)
    /\ RawTree = DictT((K_a :> DictT((K_a :> IntV(1)))) @@ (K_b :> IntV(5)))

\* the value get(path) returns in the current state
Got(path) == Val(heap, get(Self, path, None).ret)

\* the raw tree holds a value that is not null at the environment-specific path
Shadowed(path) ==
    /\ TreeHas(RawTree, EnvKeys(path))
    /\ TreeAt(RawTree, EnvKeys(path)) # None

\* a call that set one value by path
SetsValue == last.op \in {"set", "__setitem__"}

\* no path of the entries of an update is a prefix of another one's
Disjoint(updates) ==
    \A i, j \in DOMAIN updates :
        i # j => LET p == BareKeys(updates[i][1])
                     q == BareKeys(updates[j][1])
                 IN  ~(Len(p) <= Len(q) /\ SubSeq(q, 1, Len(p)) = p)

\* C25 as stated: after set(p, v) or config[p] = v with v not null, get(p)
\* returns v; after an update whose paths do not overlap, get returns each
\* entry's value that is not null.
C25_Original ==
    /\ (SetsValue /\ last.args[2] # None) => Got(last.args[1]) = last.args[2]
    /\ (last.op = "update" /\ Disjoint(last.args[1])) =>
          \A i \in DOMAIN last.args[1] :
              last.args[1][i][2] # None =>
                  Got(last.args[1][i][1]) = last.args[1][i][2]

\* what get(path) returns after v was set at path
GotAfterSet(path, v) ==
    IF Shadowed(path) THEN Got(path) = TreeAt(RawTree, EnvKeys(path))
    ELSE Got(path) = v

\* C25: after set(p, v) or config[p] = v with v not null, the raw tree holds v
\* at p, and get(p) returns v unless the raw tree holds a value that is not
\* null at '<active environment id>.<p>', which get then returns; the same
\* holds of every entry of an update whose paths do not overlap.
C25_SetThenGet ==
    /\ (SetsValue /\ last.args[2] # None) =>
          /\ TreeHas(RawTree, BareKeys(last.args[1]))
          /\ TreeAt(RawTree, BareKeys(last.args[1])) = last.args[2]
          /\ GotAfterSet(last.args[1], last.args[2])
    /\ (last.op = "update" /\ Disjoint(last.args[1])) =>
          \A i \in DOMAIN last.args[1] :
              last.args[1][i][2] # None =>
                  /\ TreeHas(RawTree, BareKeys(last.args[1][i][1]))
                  /\ TreeAt(RawTree, BareKeys(last.args[1][i][1])) = last.args[1][i][2]
                  /\ GotAfterSet(last.args[1][i][1], last.args[1][i][2])

\* set('b.a', 8) has replaced the list at b by a dict, and get('b.a') returns 8
C25_Witness ==
    /\ last.op = "set"
    /\ last.args = <<P_ba, IntV(8)>>
    /\ last.before.tree = A_leaves
    /\ RawTree = DictT((K_a :> StrV(<<"b">>)) @@ (K_b :> DictT((K_a :> IntV(8)))))
    /\ Got(P_ba) = IntV(8)

\* has(key) in the state the call is made in
HasKey(key) == has(Self, key).ret.b

\* the store is after the step what it was before it
StoreUnchanged ==
    /\ Val(heap', config_data') = RawTree
    /\ loaded_files' = loaded_files
    /\ ResolvedCache' = ResolvedCache

\* C28: config[key] raises KeyError exactly when has(key) is false, and
\* otherwise returns get(key), null for a key that holds null; `key in config`
\* equals has(key); del config[key] raises KeyError exactly when has(key) is
\* false, and then leaves the store unchanged.
C28_DictionaryAccess ==
    /\ [][last'.op = "__getitem__" =>
            /\ (last'.exc = "KeyError") <=> ~HasKey(last'.args[1])
            /\ (last'.exc = "none") <=> HasKey(last'.args[1])
            /\ HasKey(last'.args[1]) =>
                 Val(heap', last'.ret) = Val(heap, get(Self, last'.args[1], None).ret)
            /\ StoreUnchanged]_vars
    /\ [][last'.op = "__contains__" =>
            /\ last'.exc = "none"
            /\ last'.ret = BoolV(HasKey(last'.args[1]))]_vars
    /\ [][last'.op = "__delitem__" =>
            /\ (last'.exc = "KeyError") <=> ~HasKey(last'.args[1])
            /\ (last'.exc = "none") <=> HasKey(last'.args[1])
            /\ ~HasKey(last'.args[1]) => StoreUnchanged]_vars

\* config['a.b'] has returned null for a key that holds null
C28_Witness ==
    /\ last.op = "__getitem__"
    /\ last.args = <<P_ab>>
    /\ last.exc = "none"
    /\ last.ret = None
    /\ RawTree = A_nested
    /\ HasKey(P_ab)

\* the raw tree holds, at the active environment's id, a value that is not a
\* dict
HasScalarEnvKey ==
    /\ ActiveEnvironment.value \in DOMAIN RawTree.m
    /\ RawTree.m[ActiveEnvironment.value].t # "dict"

\* C30: when the top-level key that is the active environment's id holds a
\* scalar, a list or null, get_resolved_config removes nothing and merges
\* nothing: the tree it returns is the raw tree, with that key and its value.
C30_ScalarEnvironmentKey ==
    (last.op = "get_resolved_config" /\ HasScalarEnvKey) =>
        /\ ActiveEnvironment.value \in DOMAIN Val(heap, last.ret).m
        /\ Val(heap, last.ret) = RawTree

\* no value of the tree is an empty dict and no key contains the separator
RECURSIVE Flattenable(_)
Flattenable(tree) ==
    tree.t = "dict" =>
        \A k \in DOMAIN tree.m :
            /\ Sep \notin Range(k)
            /\ tree.m[k].t = "dict" => DOMAIN tree.m[k].m # {}
            /\ Flattenable(tree.m[k])

\* the paths of the leaves of a tree: the values that are not dicts
RECURSIVE LeafPaths(_)
LeafPaths(tree) ==
    UNION {IF tree.m[k].t = "dict"
           THEN {<<k>> \o p : p \in LeafPaths(tree.m[k])}
           ELSE {<<k>>} : k \in DOMAIN tree.m}

\* the segments of a path joined with the separator
RECURSIVE Joined(_)
Joined(keys) ==
    IF Len(keys) = 1 THEN keys[1] ELSE keys[1] \o <<Sep>> \o Joined(Tail(keys))

\* the items of a flat dict that stand for the leaf at the path keys of tree
ItemsFor(items, tree, keys) ==
    {i \in DOMAIN items :
        /\ items[i][1] = Joined(keys)
        /\ Val(heap, items[i][2]) = TreeAt(tree, keys)}

\* C26: for every tree that has no empty dict as a value and no key containing
\* the separator, flatten_dict gives exactly one entry per leaf, keyed by the
\* segments of the leaf's path joined with the separator and holding the
\* leaf's value, and unflatten_dict(flatten_dict(t)) == t.
C26_RoundTrip ==
    /\ (last.op = "flatten_dict" /\ Flattenable(m_in.tree)) =>
          /\ Len(m_out) = Cardinality(LeafPaths(m_in.tree))
          /\ \A p \in LeafPaths(m_in.tree) :
                 Cardinality(ItemsFor(m_out, m_in.tree, p)) = 1
    /\ (last.op = "unflatten_dict" /\ Flattenable(m_in.tree)) =>
          Val(heap, m_out) = m_in.tree

\* tree with value at the path keys: a key on the way that is missing or
\* holds something that is not a dict gets a dict holding the rest of the path
\* and nothing else, every other key keeps its value
RECURSIVE TreeSet(_, _, _)
TreeSet(tree, keys, value) ==
    IF Len(keys) = 1 THEN DictT(SetKey(tree.m, keys[1], value))
    ELSE LET k == Head(keys)
             below == IF k \in DOMAIN tree.m /\ tree.m[k].t = "dict"
                      THEN tree.m[k] ELSE EmptyTree
         IN  DictT(SetKey(tree.m, k, TreeSet(below, Tail(keys), value)))

\* the keys of the path given to the function
NestedKeys == Split(m_in.key_path, Sep)

\* the tree of the caller's dict now
NestedTree == Val(heap, m_in.data)

\* C27: the path functions of utils.py never raise.  On every tree and every
\* dot-path, an empty segment being the key '' and a path that is missing or
\* that runs through a scalar, a string, a list or null not existing:
\* get_nested_value returns the value of an existing path and the default
\* otherwise, has_nested_key tells whether the path exists, and
\* set_nested_value puts an empty dict in the place of every value on the way
\* that is not a dict, goes on, and leaves the value readable at the path
\* (get_nested_value(tree, path) == value), no key outside the path being
\* touched.
C27_PathOperations ==
    /\ last.op \in {"get_nested_value", "has_nested_key", "set_nested_value"} =>
          last.exc = "none"
    /\ last.op = "get_nested_value" =>
          /\ NestedTree = m_in.tree
          /\ Val(heap, m_out) = IF TreeHas(m_in.tree, NestedKeys)
                                THEN TreeAt(m_in.tree, NestedKeys)
                                ELSE last.args[1]
    /\ last.op = "has_nested_key" =>
          /\ NestedTree = m_in.tree
          /\ m_out = BoolV(TreeHas(m_in.tree, NestedKeys))
    /\ last.op = "set_nested_value" =>
          /\ NestedTree = TreeSet(m_in.tree, NestedKeys, last.args[1])
          /\ get_nested_value(heap, m_in.data, m_in.key_path, IntV(0)) = last.args[1]
          /\ has_nested_key(heap, m_in.data, m_in.key_path)

\* set_nested_value(data, 'a..b', 9) on {'a': [1]} has replaced the list by a
\* dict and set the value under the empty key
C27_Witness ==
    /\ last.op = "set_nested_value"
    /\ last.args = <<IntV(9)>>
    /\ m_in.tree = DictT(K_a :> ListT(<<IntV(1)>>))
    /\ m_in.key_path = K_a \o <<Sep, Sep>> \o K_b
    /\ NestedTree = DictT(K_a :> DictT(K_empty :> DictT(K_b :> IntV(9))))

\* the value the port rule was applied to
PortValue == last.args[1]

\* int(value) succeeds
Coercible(v) == py_int(v).exc = "none"

\* C29: the port rule never raises; a value int() turns into n is valid if
\* and only if 1 <= n <= 65535, so that 1 and 65535 are valid and 0, 65536 and
\* the negative numbers are not; a value int() refuses is invalid
C29_PortRule ==
    last.op = "port_rule.validate" =>
        /\ last.exc = "none"
        /\ last.ret \in {BoolV(TRUE), BoolV(FALSE)}
        /\ Coercible(PortValue) =>
               (last.ret.b <=> (1 <= py_int(PortValue).v.n /\ py_int(PortValue).v.n <= 65535))
        /\ ~Coercible(PortValue) => ~last.ret.b
        /\ PortValue.t = "int" => (last.ret.b <=> (1 <= PortValue.n /\ PortValue.n <= 65535))
        /\ PortValue \in {IntV(1), IntV(65535), StrV(<<"6","5","5","3","5">>), StrV(<<"1">>)} => last.ret.b
        /\ PortValue \in {IntV(0), IntV(65536), IntV(-1), StrV(<<"0">>), StrV(<<"6","5","5","3","6">>),
                          StrV(<<"-","1">>), StrV(<<"n","o","t","-","a","-","p","o","r","t">>), StrV(<<>>), None}
               => ~last.ret.b

\* the rule has been applied to 65535, the last port of the range, and has
\* found it valid
C29_Witness ==
    /\ last.op = "port_rule.validate"
    /\ PortValue = IntV(65535)
    /\ last.ret = BoolV(TRUE)

\* a recorded source is gone when the call is made
SourceGone == \E i \in DOMAIN loaded_files : ~files[loaded_files[i]].exists

\* the recorded sources that are gone
GoneSources == {loaded_files[i] : i \in {j \in DOMAIN loaded_files : ~files[loaded_files[j]].exists}}

OverridesIn(order, prefix) ==
    LET r == get_env_overrides(<<>>, None, environ, order, prefix, FALSE)
    IN  Val(r.h, r.v)

\* C33: the tree returned by a get_env_overrides call that builds it (cache
\* false) is the one built from the process's variables in every order in
\* which they can be iterated.
C33_OrderIndependent ==
    (last.op = "get_env_overrides" /\ ~last.args[2]) =>
        \A o \in Orders(environ, last.args[1]) :
            OverridesIn(o, last.args[1]) = Val(heap, last.ret)

\* C31: the resolved-config cache is invalidated on every change of the
\* active environment (by config.set_environment, by
\* config.env_manager.set_environment or by the first read that resolves the
\* environment): after the change the cache is empty or holds the resolution
\* for the new environment, and every get_resolved_config call returns the
\* resolution of the raw tree for the environment that is active.
C31_EnvironmentChange ==
    last.op # "init" =>
        /\ current_env # last.before.env =>
               (resolved_cache = None \/ ResolvedCache = FreshResolution)
        /\ last.op = "get_resolved_config" => Val(heap, last.ret) = FreshResolution

\* the calls that read the active environment
EnvironmentReads ==
    {"current_environment", "get", "has", "get_resolved_config", "validate"}

\* the call was a set_environment, on the store or on its environment
\* manager, that returned
SetsEnvironment ==
    /\ last.op \in {"set_environment", "env_manager.set_environment"}
    /\ last.exc = "none"

\* C34: the active environment is memoized.  A call that reads it leaves the
\* manager holding an environment: the one it held before when it held one,
\* otherwise the one the designated process variable names at that call.
\* Once the manager holds an environment, every call but a set_environment
\* that returns leaves it as it is, a change of the process variable
\* included; a read of current_environment returns it and get probes its
\* block.
C34_Memoized ==
    last.op # "init" =>
        /\ (last.before.env # None /\ ~SetsEnvironment) => current_env = last.before.env
        /\ last.op \in EnvironmentReads =>
               /\ current_env # None
               /\ last.before.env = None => current_env = Designated
        /\ last.op = "current_environment" => last.ret = current_env
        /\ last.op = "get" => Val(heap, last.ret) = Probed(last.args[1], last.args[2])
        /\ last.op = "putenv" => current_env = last.before.env

\* get has probed the block of production, memoized from the process
\* variable by an earlier read, after the variable was changed to staging:
\* the only change made so far is the one of the variable
C34_Witness ==
    /\ last.op = "get"
    /\ steps = 1
    /\ env_var_name \in DOMAIN environ
    /\ current_env = EnvV(Production)
    /\ last.before.env = EnvV(Production)
    /\ Designated = EnvV(Staging)

\* the raw tree with the block of the active environment merged over its
\* siblings
Resolution == IF HasEnvBlock THEN Overlaid ELSE RawTree

\* what the validator gives for a tree holding the resolution
ValidatorOn(tree, raise_on_error) ==
    LET b == Build(<<>>, tree) IN validate(rules, b.h, b.v, raise_on_error)

ComparedPaths == {P_a, P_ab, P_b, P_prod_ab, Production, K_a \o <<Sep>> \o P_ab}

\* what get_resolved_config() returns now, as a tree
ResolvedNow == LET g == get_resolved_config(Self, TRUE) IN Val(g.h, g.ret)

\* what get(path) returns now, as a tree
GotNow(path, default) == LET g == get(Self, path, default) IN Val(g.h, g.ret)

\* the value at path in tree is a scalar or a list, and not null
IsLeafAt(tree, path) ==
    /\ TreeHas(tree, Split(path, Sep))
    /\ TreeAt(tree, Split(path, Sep)).t \notin {"dict", "null"}

\* C37: in every reachable state and for every path, when the value at the
\* path in get_resolved_config() is a scalar or a list and not null, get
\* returns that value for the path.
C37_LeavesAgree ==
    \A p \in ComparedPaths :
        IsLeafAt(ResolvedNow, p) =>
            GotNow(p, None) = TreeAt(ResolvedNow, Split(p, Sep))

\* under production the resolution holds at a.b the value of the production
\* block, which is not the one the raw tree holds at a.b
C37_Witness ==
    /\ current_env = EnvV(Production)
    /\ resolved_cache # None
    /\ IsLeafAt(ResolvedNow, P_ab)
    /\ IsLeafAt(RawTree, P_ab)
    /\ TreeAt(ResolvedNow, Split(P_ab, Sep)) # TreeAt(RawTree, Split(P_ab, Sep))

\* what has(path) returns now
HasNow(path) == has(Self, path).ret.b

\* C38: in every reachable state and for every path, get and has agree: when
\* get with a null default returns a value that is not null, has is true;
\* when has is false, get returns the default it is given, whatever it is.
C38_GetHasConsistent ==
    \A p \in ComparedPaths :
        /\ GotNow(p, None) # None => HasNow(p)
        /\ ~HasNow(p) => \A d \in {None, IntV(0), StrV(<<"x">>)} : GotNow(p, d) = d

\* in one state has is false for a path, and get finds for another path a
\* value that only the block of the active environment holds
C38_Witness ==
    /\ current_env = EnvV(Production)
    /\ ~HasNow(P_b)
    /\ \E p \in ComparedPaths :
           /\ ~TreeHas(RawTree, Split(p, Sep))
           /\ GotNow(p, None) # None

\* the calls that read the store
ReadCalls ==
    {"get", "has", "keys", "items", "get_resolved_config", "to_dict", "validate"}

\* the call that was made last, made again now
Repeated ==
    LET a == last.args
        order == KeySeq(AllKeys(RawTree))
    IN  CASE last.op = "get" -> get(Self, a[1], a[2])
          [] last.op = "has" -> has(Self, a[1])
          [] last.op = "keys" -> CM_keys(Self, a[1], order)
          [] last.op = "items" -> CM_items(Self, a[1], order)
          [] last.op = "get_resolved_config" -> get_resolved_config(Self, a[1])
          [] last.op = "to_dict" -> to_dict(Self, a[1])
          [] last.op = "validate" -> CM_validate(Self, rules, a[1])

\* C39: a call that reads the store (get, has, keys, items,
\* get_resolved_config, to_dict, validate) leaves the raw tree, the source
\* list and the rules as they were, and the same call made again right after
\* it gives the same result, value or exception.
C39_ReadsOnly ==
    last.op \in ReadCalls =>
        /\ RawTree = last.before.tree
        /\ loaded_files = last.before.sources
        /\ rules = last.before.rules
        /\ Repeated.exc = last.exc
        /\ Val(Repeated.h, Repeated.ret) = Val(heap, last.ret)

\* get_resolved_config has memoized the environment and filled the cache on
\* a store that holds a block for that environment and a rule
C39_Witness ==
    /\ last.op = "get_resolved_config"
    /\ last.args = <<TRUE>>
    /\ last.before.env = None
    /\ current_env # None
    /\ resolved_cache = last.ret
    /\ HasEnvBlock
    /\ rules # <<>>

\* C35: a tree returned by get_resolved_config is the tree the caller was
\* given whatever set, delete, update, load_dict or apply_env_overrides did
\* to the store since, and a store into the returned tree leaves the raw tree
\* and what get and has report as they were.
C35_SnapshotIsolated ==
    /\ m_out # None => Val(heap, m_out) = m_in[1]
    /\ last.op = "snapshot[key] = value" =>
           /\ RawTree = last.before.tree
           /\ Reports(Self) = last.args[3]

\* C40: after clear and after reload the active environment, the overrides
\* the environment manager holds and the validation rules are what they were
\* before the call; after clear the raw tree and the source list are empty
\* and the resolved cache is invalidated.
C40_ClearReloadFrame ==
    last.op \in {"clear", "reload"} =>
        /\ current_env = last.before.env
        /\ CachedOverrides = last.before.overrides
        /\ rules = last.before.rules
        /\ last.op = "clear" =>
               /\ RawTree = DictT(EmptyMap)
               /\ loaded_files = <<>>
               /\ resolved_cache = None

\* clear on a store that had loaded a file and cached its resolution, with a
\* rule registered, an environment memoized and overrides held
C40_Witness ==
    /\ last.op = "clear"
    /\ last.before.sources # <<>>
    /\ last.before.tree # DictT(EmptyMap)
    /\ last.before.cached
    /\ rules # <<>>
    /\ current_env # None
    /\ CachedOverrides \notin {None, DictT(EmptyMap)}

====
